---- MODULE Spec2Model ----
(***************************************************************************)
(* A model of the badgecheck validation engine: the task reducer           *)
(* (badgecheck/reducers/tasks.py), the validation task handlers            *)
(* (badgecheck/tasks/validation.py) and the driver loop that applies them. *)
(*                                                                         *)
(* Python dicts are functions over a set of string keys; a missing key is  *)
(* a key outside DOMAIN.  Python lists are sequences.  Where the code      *)
(* relies on object identity (copy versus alias), lists and dicts live in  *)
(* a heap of objects addressed by reference.                               *)
(***************************************************************************)
EXTENDS Integers, Sequences, FiniteSets, TLC

VARIABLES
    tasks,       \* the task queue held by the store (a list of task dicts)
    prev,        \* the queue that was passed to the last task_reducer call
    inputAfter,  \* the contents of that same list object after the call
    action,      \* the action passed to the last task_reducer call
    raised,      \* the exception the last call raised, or None
    nsteps,      \* number of task_reducer calls made so far
    nodes,       \* the node store: node id -> node dict
    pc,          \* the driver: "idle", "running", "done" or "halted"
    outcome,     \* what the last handler call returned or raised
    now,         \* the wall clock datetime.now(utc) reads
    runs         \* the timestamp checks made so far: clock reading and outcome

rvars == <<tasks, prev, inputAfter, action, raised, nsteps>>
dvars == <<nodes, pc, outcome, now, runs>>
vars == <<tasks, prev, inputAfter, action, raised, nsteps, nodes, pc, outcome, now, runs>>

(***************************************************************************)
(* Bounds                                                                  *)
(***************************************************************************)
MaxSteps == 4

(***************************************************************************)
(* Python values                                                           *)
(***************************************************************************)
None == "None"

\* no handler has been called yet
NoOutcome == [exc |-> "", success |-> FALSE, message |-> "", actions |-> << >>]

ADD_TASK == "ADD_TASK"
RESOLVE_TASK == "RESOLVE_TASK"
UPDATE_TASK == "UPDATE_TASK"

VALIDATE_EXPECTED_NODE_CLASS == "VALIDATE_EXPECTED_NODE_CLASS"
VALIDATE_PROPERTY == "VALIDATE_PROPERTY"
VALIDATE_RDF_TYPE_PROPERTY == "VALIDATE_RDF_TYPE_PROPERTY"
FETCH_HTTP_NODE == "FETCH_HTTP_NODE"

\* d.get(k)
Get(d, k) == IF k \in DOMAIN d THEN d[k] ELSE None

\* d.update(u), as a value
DictUpdate(d, u) == u @@ d

\* {k: d[k] for k in d.keys() if k not in ks}
Without(d, ks) == [k \in (DOMAIN d) \ ks |-> d[k]]

(***************************************************************************)
(* The heap: dict objects and list objects, addressed by their index.      *)
(***************************************************************************)
NewDict(h, d) == [h EXCEPT !.dicts = Append(@, d)]
NewList(h, l) == [h EXCEPT !.lists = Append(@, l)]
LastDict(h) == Len(h.dicts)
LastList(h) == Len(h.lists)

\* the value of list object l: the dict values its references point to
Deref(h, l) ==
    LET s == [i \in 1..Len(h.lists[l]) |-> h.dicts[h.lists[l][i]]]
    IN SubSeq(s, 1, Len(h.lists[l]))

\* a heap that holds the queue q as list object 1 over dict objects 1..Len(q)
HeapOf(q) == [dicts |-> q, lists |-> << [i \in 1..Len(q) |-> i] >>]

\* task.copy() aliased: update = task
DictCopyAliased(h, r) == [heap |-> h, ref |-> r]

\* task.copy(): a new dict object with the same items
DictCopy(h, r) == [heap |-> NewDict(h, h.dicts[r]), ref |-> Len(h.dicts) + 1]

\* update.update(u) / update[key] = value: mutates the dict object r in place
DictUpdateInPlace(h, r, u) == [h EXCEPT !.dicts[r] = DictUpdate(@, u)]

(***************************************************************************)
(* reducers/tasks.py                                                       *)
(***************************************************************************)
\* a predicate that also compares expected_class
_task_to_add_exists_strict(state, a) ==
    IF Get(a, "name") = VALIDATE_EXPECTED_NODE_CLASS
    THEN \E i \in 1..Len(state) :
            /\ a["name"] = Get(state[i], "name")
            /\ Get(a, "node_id") = Get(state[i], "node_id")
            /\ Get(a, "expected_class") = Get(state[i], "expected_class")
    ELSE IF Get(a, "name") \in {VALIDATE_PROPERTY, VALIDATE_RDF_TYPE_PROPERTY}
    THEN \E i \in 1..Len(state) :
            /\ Get(a, "node_id") = Get(state[i], "node_id")
            /\ Get(a, "prop_name") = Get(state[i], "prop_name")
            /\ Get(a, "required") = Get(state[i], "required")
    ELSE FALSE

\* a property task deduplicated only against tasks of its own name
_task_to_add_exists_byname(state, a) ==
    IF Get(a, "name") = VALIDATE_EXPECTED_NODE_CLASS
    THEN \E i \in 1..Len(state) :
            /\ a["name"] = Get(state[i], "name")
            /\ Get(a, "node_id") = Get(state[i], "node_id")
    ELSE IF Get(a, "name") \in {VALIDATE_PROPERTY, VALIDATE_RDF_TYPE_PROPERTY}
    THEN \E i \in 1..Len(state) :
            /\ a["name"] = Get(state[i], "name")
            /\ Get(a, "node_id") = Get(state[i], "node_id")
            /\ Get(a, "prop_name") = Get(state[i], "prop_name")
    ELSE FALSE

\* a predicate that never finds the task
_task_to_add_exists_never(state, a) == FALSE

\* [t for t in state if ...][0] raises IndexError exactly when no t matches
_task_to_add_exists(state, a) ==
    IF Get(a, "name") = VALIDATE_EXPECTED_NODE_CLASS
    THEN \E i \in 1..Len(state) :
            /\ a["name"] = Get(state[i], "name")
            /\ Get(a, "node_id") = Get(state[i], "node_id")
    ELSE IF Get(a, "name") \in {VALIDATE_PROPERTY, VALIDATE_RDF_TYPE_PROPERTY}
    THEN \E i \in 1..Len(state) :
            /\ Get(a, "node_id") = Get(state[i], "node_id")
            /\ Get(a, "prop_name") = Get(state[i], "prop_name")
    ELSE FALSE

\* a counter that reuses the last id
task_counter_reuse(state) ==
    IF Len(state) = 0 THEN 1 ELSE state[Len(state)]["task_id"]

\* task_counter: 1 on an empty queue, else the last task's id plus 1
task_counter(state) ==
    IF Len(state) = 0 THEN 1 ELSE state[Len(state)]["task_id"] + 1

\* new_task: id and complete flag first, then every action key but 'type'
new_task(state, a) ==
    DictUpdate([task_id |-> task_counter(state), complete |-> FALSE],
               Without(a, {"type"}))

\* a resolution that leaves the task active
resolve_update_active(a) ==
    [complete |-> FALSE, success |-> Get(a, "success"), result |-> Get(a, "result")]

\* the dict RESOLVE_TASK merges into the copy of the task
resolve_update(a) ==
    [complete |-> TRUE, success |-> Get(a, "success"), result |-> Get(a, "result")]

\* the keys UPDATE_TASK copies from the action onto the copy of the task
update_update(a) == Without(a, {"type", "task_id"})

\* a rebuild that replaces every item but the identified one
_new_state_with_updated_item_flipped(h, state, item_id, update) ==
    NewList(h, [i \in 1..Len(h.lists[state]) |->
                  IF item_id = h.dicts[h.lists[state][i]]["task_id"]
                  THEN h.lists[state][i]
                  ELSE update])

\* a new list: the old items, with update in place of the item named item_id
_new_state_with_updated_item(h, state, item_id, update) ==
    NewList(h, [i \in 1..Len(h.lists[state]) |->
                  IF item_id # h.dicts[h.lists[state][i]]["task_id"]
                  THEN h.lists[state][i]
                  ELSE update])

\* the first dict object of list `state` whose task_id is id, 0 when none
FirstMatch(h, state, id) ==
    LET l == h.lists[state]
        M == {i \in 1..Len(l) : h.dicts[l[i]]["task_id"] = id}
    IN IF M = {} THEN 0 ELSE l[CHOOSE i \in M : \A j \in M : i <= j]

Returned(h, l) == [raised |-> None, ret |-> l, heap |-> h]
Raised(h, e) == [raised |-> e, ret |-> 0, heap |-> h]

\* RESOLVE_TASK and UPDATE_TASK: find the task, copy it, update the copy,
\* rebuild the list
ReduceItem(h, state, a, u) ==
    LET st == Deref(h, state)
    IN IF Len(st) > 0 /\ "task_id" \notin DOMAIN a
       THEN Returned(h, state)                       \* except KeyError
       ELSE IF ~\E i \in 1..Len(st) : st[i]["task_id"] = a["task_id"]
       THEN Raised(h, "IndexError")                  \* [...][0], not caught
       ELSE LET task == FirstMatch(h, state, a["task_id"])
                c == DictCopy(h, task)
                h2 == DictUpdateInPlace(c.heap, c.ref, u)
                h3 == _new_state_with_updated_item(h2, state, a["task_id"], c.ref)
            IN Returned(h3, LastList(h3))

\* task_reducer(state, action) on the heap h0, state being list object s0
task_reducer(h0, s0, a) ==
    LET empty == Len(h0.lists[s0]) = 0
        h1 == IF empty THEN NewList(h0, << >>) ELSE h0      \* state = []
        state == IF empty THEN LastList(h1) ELSE s0
        st == Deref(h1, state)
    IN IF Get(a, "type") = ADD_TASK /\ ~_task_to_add_exists(st, a)
       THEN LET h2 == NewDict(h1, new_task(st, a))
                h3 == NewList(h2, Append(h2.lists[state], LastDict(h2)))
            IN Returned(h3, LastList(h3))
       ELSE IF Get(a, "type") = RESOLVE_TASK
       THEN ReduceItem(h1, state, a, resolve_update(a))
       ELSE IF Get(a, "type") = UPDATE_TASK
       THEN ReduceItem(h1, state, a, update_update(a))
       ELSE Returned(h1, state)

(***************************************************************************)
(* The actions fed to the reducer                                          *)
(***************************************************************************)
PropNames == {"p1", "p2"}
ClassNames == {"c1", "c2"}

\* ADD_TASK actions as add_task(name, **kwargs) builds them for the handlers
AddActions ==
    {[type |-> ADD_TASK, name |-> VALIDATE_EXPECTED_NODE_CLASS,
      node_id |-> "n1", expected_class |-> c] : c \in ClassNames}
    \cup
    {[type |-> ADD_TASK, name |-> VALIDATE_PROPERTY,
      node_id |-> n, prop_name |-> p, required |-> r]
        : n \in {"n1"}, p \in PropNames, r \in BOOLEAN}
    \cup
    {[type |-> ADD_TASK, name |-> VALIDATE_RDF_TYPE_PROPERTY,
      node_id |-> "n1", prop_name |-> "p1", required |-> TRUE]}
    \cup
    {[type |-> ADD_TASK, name |-> FETCH_HTTP_NODE,
      url |-> "n1", expected_class |-> "c1"]}

\* RESOLVE_TASK actions: any id up to one past the queue, or no id at all
ResolveActions(q) ==
    {[type |-> RESOLVE_TASK, task_id |-> i, success |-> s, result |-> "msg"]
        : i \in 1..(Len(q) + 1), s \in {"<True>", "<False>"}}
    \cup {[type |-> RESOLVE_TASK, success |-> "<True>"]}

\* UPDATE_TASK payloads: any field of a task
UpdatePayloads ==
    { [complete |-> FALSE], [complete |-> TRUE], [success |-> "<True>"],
      [prop_name |-> "p1"], [required |-> FALSE], [node_id |-> "n1"] }

UpdateActions(q) ==
    {DictUpdate([type |-> UPDATE_TASK, task_id |-> i], u)
        : i \in 1..(Len(q) + 1), u \in UpdatePayloads}
    \cup {[type |-> UPDATE_TASK, complete |-> TRUE]}

(***************************************************************************)
(* The store: every action is one task_reducer call on the current queue   *)
(***************************************************************************)
Init ==
    /\ tasks = << >>
    /\ prev = << >>
    /\ inputAfter = << >>
    /\ action = [type |-> "INIT"]
    /\ raised = None
    /\ nsteps = 0
    /\ nodes = << >>
    /\ pc = "idle"
    /\ outcome = NoOutcome
    /\ now = 0
    /\ runs = << >>

Dispatch(a) ==
    LET r == task_reducer(HeapOf(tasks), 1, a)
    IN /\ nsteps < MaxSteps
       /\ nsteps' = nsteps + 1
       /\ action' = a
       /\ prev' = tasks
       /\ raised' = r.raised
       /\ inputAfter' = Deref(r.heap, 1)
       /\ tasks' = IF r.raised = None THEN Deref(r.heap, r.ret) ELSE tasks
       /\ UNCHANGED dvars

AddTask == \E a \in AddActions : Dispatch(a)
ResolveTask == \E a \in ResolveActions(tasks) : Dispatch(a)
UpdateTask == \E a \in UpdateActions(tasks) : Dispatch(a)

Next == AddTask \/ ResolveTask \/ UpdateTask

Spec == Init /\ [][Next]_vars

(***************************************************************************)
(* JSON values of the node store.  A Python string is the string itself;   *)
(* the non-string scalars are the tokens below.  A property value is a     *)
(* scalar or a list of scalars.                                            *)
(***************************************************************************)
PyTrue == "<True>"
PyFalse == "<False>"
PyNumber == "<7>"
PyDict == "<dict>"
NonStrings == {None, PyTrue, PyFalse, PyNumber, PyDict}

IsString(a) == a \notin NonStrings

Scalar(a) == [list |-> FALSE, vals |-> <<a>>]
List(s) == [list |-> TRUE, vals |-> s]

\* bool(v) of a scalar, and of a property value
TruthyAtom(a) == a \notin {None, PyFalse, ""}
Truthy(v) == IF v.list THEN Len(v.vals) > 0 ELSE TruthyAtom(v.vals[1])

\* node.get(k) == s for a string s
GetIs(node, k, s) == k \in DOMAIN node /\ ~node[k].list /\ node[k].vals[1] = s

\* tasks/utils.py
UrlStrings == {"http://e/a1", "http://e/n2", "http://e/bc1", "http://e/x"}
BlankNodeStrings == {"_:b0", "_:b1"}
UrnStrings == {"urn:uuid:1"}

is_url(a) == a \in UrlStrings
is_iri(a) == a \in UrlStrings \cup BlankNodeStrings \cup UrnStrings
is_empty_list(v) == v.list /\ Len(v.vals) = 0
is_null_list(v) == v.list /\ \A i \in 1..Len(v.vals) : v.vals[i] = None

\* task_result(success, message, actions)
task_result(success, message, actions) ==
    [exc |-> None, success |-> success, message |-> message, actions |-> actions]

\* a handler that raised
Raises(e) == [exc |-> e, success |-> FALSE, message |-> e, actions |-> << >>]

\* add_task(task_name, **kwargs)
add_task(task_name, kwargs) ==
    DictUpdate([type |-> ADD_TASK, name |-> task_name], kwargs)

\* patch_node(node_id, patch)
patch_node(node_id, patch) ==
    [type |-> "PATCH_NODE", node_id |-> node_id, data |-> patch]

\* Flatten a sequence of sequences
RECURSIVE Flatten(_)
Flatten(ss) == IF Len(ss) = 0 THEN << >> ELSE Head(ss) \o Flatten(Tail(ss))

(***************************************************************************)
(* tasks/task_types.py, as imported by tasks/validation.py                 *)
(***************************************************************************)
DETECT_AND_VALIDATE_NODE_CLASS == "DETECT_AND_VALIDATE_NODE_CLASS"
ASSERTION_TIMESTAMP_CHECKS == "ASSERTION_TIMESTAMP_CHECKS"
ASSERTION_VERIFICATION_DEPENDENCIES == "ASSERTION_VERIFICATION_DEPENDENCIES"
CRITERIA_PROPERTY_DEPENDENCIES == "CRITERIA_PROPERTY_DEPENDENCIES"
IDENTITY_OBJECT_PROPERTY_DEPENDENCIES == "IDENTITY_OBJECT_PROPERTY_DEPENDENCIES"
ISSUER_PROPERTY_DEPENDENCIES == "ISSUER_PROPERTY_DEPENDENCIES"
HOSTED_ID_IN_VERIFICATION_SCOPE == "HOSTED_ID_IN_VERIFICATION_SCOPE"

CLASS_VALIDATION_TASKS ==
    {ASSERTION_TIMESTAMP_CHECKS, ASSERTION_VERIFICATION_DEPENDENCIES,
     CRITERIA_PROPERTY_DEPENDENCIES, IDENTITY_OBJECT_PROPERTY_DEPENDENCIES,
     ISSUER_PROPERTY_DEPENDENCIES}

(***************************************************************************)
(* tasks/validation.py: OBClasses, ValueTypes                              *)
(***************************************************************************)
ALL_CLASSES ==
    <<"AlignmentObject", "Assertion", "BadgeClass", "Criteria", "CryptographicKey",
      "Extension", "Evidence", "IdentityObject", "Image", "Profile",
      "RevocationList", "VerificationObject">>

PRIMITIVES ==
    {"BOOLEAN", "DATETIME", "ID", "IDENTITY_HASH", "IRI", "MARKDOWN_TEXT", "TEXT", "URL"}

\* the keys of PrimitiveValueValidator's value_check_functions
CheckedTypes ==
    {"BOOLEAN", "DATA_URI", "DATA_URI_OR_URL", "DATETIME", "IDENTITY_HASH", "IRI",
     "MARKDOWN_TEXT", "RDF_TYPE", "TEXT", "URL"}

\* aniso8601.parse_datetime: the instant a string denotes (in years after
\* 2000) and whether it carries a timezone; other values do not parse
DatetimeTable ==
    [s \in {"2001-01-01T00:00:00Z", "2002-01-01T00:00:00Z", "2003-01-01T00:00:00Z",
            "2004-01-01T00:00:00Z", "2002-01-01T00:00:00"} |->
        CASE s = "2001-01-01T00:00:00Z" -> [t |-> 1, aware |-> TRUE]
          [] s = "2002-01-01T00:00:00Z" -> [t |-> 2, aware |-> TRUE]
          [] s = "2003-01-01T00:00:00Z" -> [t |-> 3, aware |-> TRUE]
          [] s = "2004-01-01T00:00:00Z" -> [t |-> 4, aware |-> TRUE]
          [] s = "2002-01-01T00:00:00" -> [t |-> 2, aware |-> FALSE]]

Parses(a) == a \in DOMAIN DatetimeTable

DataUriStrings == {"data:image/png;base64,AAAA"}

\* the strings jsonld.expand turns into an absolute IRI in the OB v2 context
RdfTypeStrings ==
    {"Assertion", "BadgeClass", "Profile", "Issuer", "Criteria", "Evidence",
     "AlignmentObject", "IdentityObject", "VerificationObject", "HostedBadge",
     "SignedBadge", "email", "url", "telephone", "id", "schema:ImageObject"}
    \cup UrlStrings

\* PrimitiveValueValidator(value_type)(value)
PrimitiveValueValidator(value_type, value) ==
    CASE value_type = "BOOLEAN" -> value \in {PyTrue, PyFalse}
      [] value_type = "DATA_URI" -> value \in DataUriStrings
      [] value_type = "DATA_URI_OR_URL" -> is_url(value) \/ value \in DataUriStrings
      [] value_type = "DATETIME" -> Parses(value) /\ DatetimeTable[value].aware
      [] value_type = "IDENTITY_HASH" -> IsString(value)
      [] value_type = "IRI" -> is_iri(value)
      [] value_type = "MARKDOWN_TEXT" -> TRUE      \* returns cls._validate_text, a truthy object
      [] value_type = "RDF_TYPE" -> value \in RdfTypeStrings
      [] value_type = "TEXT" -> IsString(value)
      [] value_type = "URL" -> is_url(value)

(***************************************************************************)
(* tasks/validation.py: ClassValidators                                    *)
(***************************************************************************)
ImplementedClasses ==
    {"Assertion", "BadgeClass", "Profile", "AlignmentObject", "Criteria",
     "IdentityObject", "Evidence", "Image", "VerificationObjectAssertion",
     "VerificationObjectIssuer"}

AssertionValidators == <<
    [prop_name |-> "id", prop_type |-> "IRI", required |-> TRUE],
    [prop_name |-> "type", prop_type |-> "RDF_TYPE", required |-> TRUE,
     many |-> TRUE, must_contain_one |-> <<"Assertion">>],
    [prop_name |-> "recipient", prop_type |-> "ID",
     expected_class |-> "IdentityObject", required |-> TRUE],
    [prop_name |-> "badge", prop_type |-> "ID",
     expected_class |-> "BadgeClass", fetch |-> TRUE, required |-> TRUE],
    [prop_name |-> "verification", prop_type |-> "ID",
     expected_class |-> "VerificationObjectAssertion", required |-> TRUE],
    [prop_name |-> "issuedOn", prop_type |-> "DATETIME", required |-> TRUE],
    [prop_name |-> "expires", prop_type |-> "DATETIME", required |-> FALSE],
    [prop_name |-> "image", prop_type |-> "URL", required |-> FALSE],
    [prop_name |-> "narrative", prop_type |-> "MARKDOWN_TEXT", required |-> FALSE],
    [prop_name |-> "evidence", prop_type |-> "ID", allow_remote_url |-> TRUE,
     expected_class |-> "Evidence", many |-> TRUE, fetch |-> FALSE, required |-> FALSE],
    [task_type |-> ASSERTION_VERIFICATION_DEPENDENCIES,
     prerequisites |-> ISSUER_PROPERTY_DEPENDENCIES],
    [task_type |-> ASSERTION_TIMESTAMP_CHECKS] >>

BadgeClassValidators == <<
    [prop_name |-> "id", prop_type |-> "IRI", required |-> TRUE],
    [prop_name |-> "type", prop_type |-> "RDF_TYPE", required |-> TRUE,
     many |-> TRUE, must_contain_one |-> <<"BadgeClass">>],
    [prop_name |-> "issuer", prop_type |-> "ID",
     expected_class |-> "Profile", fetch |-> TRUE, required |-> TRUE],
    [prop_name |-> "name", prop_type |-> "TEXT", required |-> TRUE],
    [prop_name |-> "description", prop_type |-> "TEXT", required |-> TRUE],
    [prop_name |-> "image", prop_type |-> "DATA_URI_OR_URL", required |-> TRUE],
    [prop_name |-> "criteria", prop_type |-> "ID",
     expected_class |-> "Criteria", fetch |-> FALSE,
     required |-> TRUE, allow_remote_url |-> TRUE],
    [prop_name |-> "alignment", prop_type |-> "ID",
     expected_class |-> "AlignmentObject", many |-> TRUE, fetch |-> FALSE,
     required |-> FALSE],
    [prop_name |-> "tags", prop_type |-> "TEXT", many |-> TRUE, required |-> FALSE] >>

ProfileValidators == <<
    [prop_name |-> "id", prop_type |-> "IRI", required |-> TRUE],
    [prop_name |-> "type", prop_type |-> "RDF_TYPE", required |-> TRUE,
     many |-> TRUE, must_contain_one |-> <<"Issuer", "Profile">>],
    [prop_name |-> "name", prop_type |-> "TEXT", required |-> TRUE],
    [prop_name |-> "description", prop_type |-> "TEXT", required |-> FALSE],
    [prop_name |-> "image", prop_type |-> "DATA_URI_OR_URL", required |-> FALSE],
    [prop_name |-> "url", prop_type |-> "URL", required |-> TRUE],
    [prop_name |-> "email", prop_type |-> "TEXT", required |-> TRUE],
    [prop_name |-> "telephone", prop_type |-> "TEXT", required |-> FALSE],
    [prop_name |-> "verification", prop_type |-> "ID",
     expected_class |-> "VerificationObjectIssuer", fetch |-> FALSE,
     required |-> FALSE],
    [task_type |-> ISSUER_PROPERTY_DEPENDENCIES] >>

AlignmentObjectValidators == <<
    [prop_name |-> "type", prop_type |-> "RDF_TYPE",
     many |-> TRUE, required |-> FALSE, default |-> "AlignmentObject"],
    [prop_name |-> "targetName", prop_type |-> "TEXT", required |-> TRUE],
    [prop_name |-> "targetUrl", prop_type |-> "URL", required |-> TRUE],
    [prop_name |-> "description", prop_type |-> "TEXT", required |-> FALSE],
    [prop_name |-> "targetFramework", prop_type |-> "TEXT", required |-> FALSE],
    [prop_name |-> "targetCode", prop_type |-> "TEXT", required |-> FALSE] >>

CriteriaValidators == <<
    [prop_name |-> "type", prop_type |-> "RDF_TYPE",
     many |-> TRUE, required |-> FALSE, default |-> "Criteria"],
    [prop_name |-> "id", prop_type |-> "IRI", required |-> FALSE],
    [prop_name |-> "narrative", prop_type |-> "MARKDOWN_TEXT", required |-> FALSE],
    [task_type |-> CRITERIA_PROPERTY_DEPENDENCIES] >>

IdentityObjectValidators == <<
    [prop_name |-> "type", prop_type |-> "RDF_TYPE", required |-> TRUE,
     many |-> FALSE, must_contain_one |-> <<"id", "email", "url", "telephone">>],
    [prop_name |-> "identity", prop_type |-> "IDENTITY_HASH", required |-> TRUE],
    [prop_name |-> "hashed", prop_type |-> "BOOLEAN", required |-> TRUE],
    [prop_name |-> "salt", prop_type |-> "TEXT", required |-> FALSE],
    [task_type |-> IDENTITY_OBJECT_PROPERTY_DEPENDENCIES] >>

EvidenceValidators == <<
    [prop_name |-> "type", prop_type |-> "RDF_TYPE", many |-> TRUE,
     required |-> FALSE, default |-> "Evidence"],
    [prop_name |-> "id", prop_type |-> "IRI", required |-> FALSE],
    [prop_name |-> "narrative", prop_type |-> "MARKDOWN_TEXT", required |-> FALSE],
    [prop_name |-> "name", prop_type |-> "TEXT", required |-> FALSE],
    [prop_name |-> "description", prop_type |-> "TEXT", required |-> FALSE],
    [prop_name |-> "genre", prop_type |-> "TEXT", required |-> FALSE],
    [prop_name |-> "audience", prop_type |-> "TEXT", required |-> FALSE] >>

ImageValidators == <<
    [prop_name |-> "type", prop_type |-> "RDF_TYPE", many |-> TRUE,
     required |-> FALSE, default |-> "schema:ImageObject"],
    [prop_name |-> "id", prop_type |-> "DATA_URI_OR_URL", required |-> TRUE],
    [prop_name |-> "caption", prop_type |-> "TEXT", required |-> FALSE],
    [prop_name |-> "author", prop_type |-> "IRI", required |-> FALSE] >>

VerificationObjectAssertionValidators == <<
    [prop_name |-> "type", prop_type |-> "RDF_TYPE", required |-> TRUE,
     many |-> FALSE, must_contain_one |-> <<"HostedBadge", "SignedBadge">>] >>

VerificationObjectIssuerValidators == <<
    [prop_name |-> "type", prop_type |-> "RDF_TYPE", required |-> FALSE,
     many |-> TRUE, default |-> "VerificationObject"],
    [prop_name |-> "verificationProperty", prop_type |-> "IRI", required |-> FALSE],
    [prop_name |-> "startsWith", prop_type |-> "URL", required |-> FALSE],
    [prop_name |-> "allowedOrigins", prop_type |-> "TEXT", required |-> FALSE,
     many |-> TRUE] >>

\* ClassValidators(class_name).validators; other names raise NotImplementedError
ClassValidators(class_name) ==
    CASE class_name = "Assertion" -> AssertionValidators
      [] class_name = "BadgeClass" -> BadgeClassValidators
      [] class_name = "Profile" -> ProfileValidators
      [] class_name = "AlignmentObject" -> AlignmentObjectValidators
      [] class_name = "Criteria" -> CriteriaValidators
      [] class_name = "IdentityObject" -> IdentityObjectValidators
      [] class_name = "Evidence" -> EvidenceValidators
      [] class_name = "Image" -> ImageValidators
      [] class_name = "VerificationObjectAssertion" -> VerificationObjectAssertionValidators
      [] class_name = "VerificationObjectIssuer" -> VerificationObjectIssuerValidators

\* an RDF_TYPE spec queued as a plain property as well
ValidatorActions_both(node_id, node_class, validator) ==
    LET kw == DictUpdate([node_id |-> node_id, node_class |-> node_class], validator)
    IN (IF Get(validator, "prop_type") = "RDF_TYPE"
        THEN <<add_task(VALIDATE_RDF_TYPE_PROPERTY, kw)>> ELSE << >>)
       \o
       (IF Get(validator, "prop_type") \in PRIMITIVES \cup {"RDF_TYPE"}
        THEN <<add_task(VALIDATE_PROPERTY, kw)>>
        ELSE IF Get(validator, "task_type") \in CLASS_VALIDATION_TASKS
        THEN <<add_task(validator["task_type"], kw)>>
        ELSE << >>)

\* the actions one validator contributes: the first `if` and the
\* `if ... elif` that follows it
ValidatorActions(node_id, node_class, validator) ==
    LET kw == DictUpdate([node_id |-> node_id, node_class |-> node_class], validator)
    IN (IF Get(validator, "prop_type") = "RDF_TYPE"
        THEN <<add_task(VALIDATE_RDF_TYPE_PROPERTY, kw)>> ELSE << >>)
       \o
       (IF Get(validator, "prop_type") \in PRIMITIVES
        THEN <<add_task(VALIDATE_PROPERTY, kw)>>
        ELSE IF Get(validator, "task_type") \in CLASS_VALIDATION_TASKS
        THEN <<add_task(validator["task_type"], kw)>>
        ELSE << >>)

\* _get_validation_actions(node_id, node_class)
_get_validation_actions(node_id, node_class) ==
    IF node_class \notin ImplementedClasses
    THEN Raises("NotImplementedError")
    ELSE LET validators == ClassValidators(node_class)
         IN task_result(TRUE, "", Flatten([i \in 1..Len(validators) |->
                ValidatorActions(node_id, node_class, validators[i])]))

(***************************************************************************)
(* tasks/validation.py: the task handlers.  st is the node store.          *)
(***************************************************************************)
\* bool(d.get(k)) for a flag of a task or a validator
GetBool(d, k) == k \in DOMAIN d /\ d[k]

\* get_node_by_id(state, node_id) raises IndexError when there is no such node
HasNode(st, node_id) == node_id \in DOMAIN st

RECURSIVE IdLoop(_, _, _, _, _)
RECURSIVE IdLoop_anyremote(_, _, _, _, _)
RECURSIVE IdLoop_localfirst(_, _, _, _, _)
RECURSIVE IdLoop_keeps(_, _, _, _, _)

\* the actions collected before a rejected value returned with the failure
IdLoop_keeps(st, tm, vals, i, actions) ==
    IF i > Len(vals)
    THEN task_result(TRUE, "valid", actions)
    ELSE LET val == vals[i]
         IN IF ~PrimitiveValueValidator("IRI", val)
            THEN task_result(FALSE, "not in IRI format", actions)
            ELSE IF ~GetBool(tm, "fetch")
            THEN IF ~HasNode(st, val)
                 THEN IF GetBool(tm, "allow_remote_url") /\ PrimitiveValueValidator("URL", val)
                      THEN IdLoop_keeps(st, tm, vals, i + 1, actions)
                      ELSE task_result(FALSE, "not in URI format or no known local node",
                                       actions)
                 ELSE IdLoop_keeps(st, tm, vals, i + 1, Append(actions,
                        add_task(VALIDATE_EXPECTED_NODE_CLASS,
                                 [node_id |-> val,
                                  expected_class |-> Get(tm, "expected_class")])))
            ELSE IdLoop_keeps(st, tm, vals, i + 1, Append(actions,
                        add_task(FETCH_HTTP_NODE,
                                 [url |-> val,
                                  expected_class |-> Get(tm, "expected_class")])))

\* a value that names a local node never fetched
IdLoop_localfirst(st, tm, vals, i, actions) ==
    IF i > Len(vals)
    THEN task_result(TRUE, "valid", actions)
    ELSE LET val == vals[i]
         IN IF ~PrimitiveValueValidator("IRI", val)
            THEN task_result(FALSE, "not in IRI format", << >>)
            ELSE IF HasNode(st, val)
            THEN IdLoop_localfirst(st, tm, vals, i + 1, Append(actions,
                        add_task(VALIDATE_EXPECTED_NODE_CLASS,
                                 [node_id |-> val,
                                  expected_class |-> Get(tm, "expected_class")])))
            ELSE IF GetBool(tm, "fetch")
            THEN IdLoop_localfirst(st, tm, vals, i + 1, Append(actions,
                        add_task(FETCH_HTTP_NODE,
                                 [url |-> val,
                                  expected_class |-> Get(tm, "expected_class")])))
            ELSE IF GetBool(tm, "allow_remote_url") /\ PrimitiveValueValidator("URL", val)
            THEN IdLoop_localfirst(st, tm, vals, i + 1, actions)
            ELSE task_result(FALSE, "not in URI format or no known local node", << >>)

\* a URL with no local node accepted whether or not allow_remote_url is set
IdLoop_anyremote(st, tm, vals, i, actions) ==
    IF i > Len(vals)
    THEN task_result(TRUE, "valid", actions)
    ELSE LET val == vals[i]
         IN IF ~PrimitiveValueValidator("IRI", val)
            THEN task_result(FALSE, "not in IRI format", << >>)
            ELSE IF ~GetBool(tm, "fetch")
            THEN IF ~HasNode(st, val)
                 THEN IF PrimitiveValueValidator("URL", val)
                      THEN IdLoop_anyremote(st, tm, vals, i + 1, actions)
                      ELSE task_result(FALSE, "not in URI format or no known local node", << >>)
                 ELSE IdLoop_anyremote(st, tm, vals, i + 1, Append(actions,
                        add_task(VALIDATE_EXPECTED_NODE_CLASS,
                                 [node_id |-> val,
                                  expected_class |-> Get(tm, "expected_class")])))
            ELSE IdLoop_anyremote(st, tm, vals, i + 1, Append(actions,
                        add_task(FETCH_HTTP_NODE,
                                 [url |-> val,
                                  expected_class |-> Get(tm, "expected_class")])))

\* the `for val in values_to_test` loop of an ID-typed property, from value
\* i on: the first rejected value raises ValidationError and the actions
\* collected so far are dropped
IdLoop(st, tm, vals, i, actions) ==
    IF i > Len(vals)
    THEN task_result(TRUE, "valid", actions)
    ELSE LET val == vals[i]
         IN IF ~PrimitiveValueValidator("IRI", val)
            THEN task_result(FALSE, "not in IRI format", << >>)
            ELSE IF ~GetBool(tm, "fetch")
            THEN IF ~HasNode(st, val)
                 THEN IF GetBool(tm, "allow_remote_url") /\ PrimitiveValueValidator("URL", val)
                      THEN IdLoop(st, tm, vals, i + 1, actions)
                      ELSE task_result(FALSE, "not in URI format or no known local node", << >>)
                 ELSE IdLoop(st, tm, vals, i + 1, Append(actions,
                        add_task(VALIDATE_EXPECTED_NODE_CLASS,
                                 [node_id |-> val,
                                  expected_class |-> Get(tm, "expected_class")])))
            ELSE IdLoop(st, tm, vals, i + 1, Append(actions,
                        add_task(FETCH_HTTP_NODE,
                                 [url |-> val,
                                  expected_class |-> Get(tm, "expected_class")])))

\* the values type-checked before their number is
validate_property_typefirst(st, tm) ==
    LET node_id == Get(tm, "node_id")
        prop_name == Get(tm, "prop_name")
        prop_type == Get(tm, "prop_type")
        required == GetBool(tm, "required")
        allow_many == GetBool(tm, "many")
    IN IF ~HasNode(st, node_id) THEN Raises("IndexError")
       ELSE IF prop_name \notin DOMAIN st[node_id]
       THEN IF ~required
            THEN task_result(TRUE, "Optional property not present", << >>)
            ELSE task_result(FALSE, "Required property not present", << >>)
       ELSE LET prop_value == st[node_id][prop_name]
                values_to_test == prop_value.vals
                unusable == is_empty_list(List(values_to_test)) \/ is_null_list(List(values_to_test))
            IN IF required /\ unusable
               THEN task_result(FALSE, "Required property value is not acceptable", << >>)
               ELSE IF ~required /\ unusable
               THEN task_result(TRUE, "Optional property is null", << >>)
               ELSE IF prop_type # "ID"
               THEN IF prop_type \notin CheckedTypes
                    THEN Raises("KeyError")
                    ELSE IF \E i \in 1..Len(values_to_test) :
                               ~PrimitiveValueValidator(prop_type, values_to_test[i])
                    THEN task_result(FALSE, "value not valid", << >>)
                    ELSE IF ~allow_many /\ Len(values_to_test) > 1
                    THEN task_result(FALSE, "more than the single allowed value", << >>)
                    ELSE task_result(TRUE, "valid", << >>)
               ELSE IdLoop(st, tm, values_to_test, 1, << >>)

validate_property(st, tm) ==
    LET node_id == Get(tm, "node_id")
        prop_name == Get(tm, "prop_name")
        prop_type == Get(tm, "prop_type")
        required == GetBool(tm, "required")
        allow_many == GetBool(tm, "many")
    IN IF ~HasNode(st, node_id) THEN Raises("IndexError")
       ELSE IF prop_name \notin DOMAIN st[node_id]
       THEN IF ~required
            THEN task_result(TRUE, "Optional property not present", << >>)
            ELSE task_result(FALSE, "Required property not present", << >>)
       ELSE LET prop_value == st[node_id][prop_name]
                values_to_test == prop_value.vals
                unusable == is_empty_list(List(values_to_test)) \/ is_null_list(List(values_to_test))
            IN IF required /\ unusable
               THEN task_result(FALSE, "Required property value is not acceptable", << >>)
               ELSE IF ~required /\ unusable
               THEN task_result(TRUE, "Optional property is null", << >>)
               ELSE IF ~allow_many /\ Len(values_to_test) > 1
               THEN task_result(FALSE, "more than the single allowed value", << >>)
               ELSE IF prop_type # "ID"
               THEN IF prop_type \notin CheckedTypes
                    THEN Raises("KeyError")
                    ELSE IF \E i \in 1..Len(values_to_test) :
                               ~PrimitiveValueValidator(prop_type, values_to_test[i])
                    THEN task_result(FALSE, "value not valid", << >>)
                    ELSE task_result(TRUE, "valid", << >>)
               ELSE IdLoop(st, tm, values_to_test, 1, << >>)

\* a default applied whenever one is configured, whatever type the node has
validate_rdf_type_property_overwrite(st, tm) ==
    LET prop_result == validate_property(st, tm)
        node_id == Get(tm, "node_id")
    IN IF prop_result.exc # None \/ ~prop_result.success
       THEN prop_result
       ELSE IF "default" \in DOMAIN tm
       THEN task_result(TRUE, prop_result.message,
                        <<patch_node(node_id, [type |-> Scalar(tm["default"])])>>)
       ELSE prop_result

\* must_contain_one never consulted
validate_rdf_type_property_unrestricted(st, tm) ==
    LET prop_result == validate_property(st, tm)
        node_id == Get(tm, "node_id")
        node == st[node_id]
        has_value == "type" \in DOMAIN node /\ Truthy(node["type"])
    IN IF prop_result.exc # None \/ ~prop_result.success
       THEN prop_result
       ELSE IF ~has_value /\ "default" \in DOMAIN tm
       THEN task_result(TRUE, prop_result.message,
                        <<patch_node(node_id, [type |-> Scalar(tm["default"])])>>)
       ELSE prop_result

validate_rdf_type_property(st, tm) ==
    LET prop_result == validate_property(st, tm)
        node_id == Get(tm, "node_id")
        node == st[node_id]
        has_value == "type" \in DOMAIN node /\ Truthy(node["type"])
        values_to_test == IF "type" \in DOMAIN node THEN node["type"].vals ELSE <<None>>
    IN IF prop_result.exc # None \/ ~prop_result.success
       THEN prop_result
       ELSE IF ~has_value /\ "default" \in DOMAIN tm
       THEN task_result(TRUE, prop_result.message,
                        <<patch_node(node_id, [type |-> Scalar(tm["default"])])>>)
       ELSE IF /\ "must_contain_one" \in DOMAIN tm
               /\ ~\E i \in 1..Len(values_to_test) :
                      \E j \in 1..Len(tm["must_contain_one"]) :
                          values_to_test[i] = tm["must_contain_one"][j]
       THEN task_result(FALSE, "does not have type among allowed values", << >>)
       ELSE prop_result

\* the first ob_class of ALL_CLASSES equal to the declared type, else None
DetectedClass(node) ==
    LET M == {i \in 1..Len(ALL_CLASSES) : GetIs(node, "type", ALL_CLASSES[i])}
    IN IF M = {} THEN None ELSE ALL_CLASSES[CHOOSE i \in M : \A j \in M : i <= j]

detect_and_validate_node_class(st, tm) ==
    LET node_id == Get(tm, "node_id")
    IN IF ~HasNode(st, node_id) THEN Raises("IndexError")
       ELSE LET r == _get_validation_actions(node_id, DetectedClass(st[node_id]))
            IN IF r.exc # None THEN r
               ELSE task_result(TRUE, "Declared type on node", r.actions)

validate_expected_node_class(st, tm) ==
    LET node_id == Get(tm, "node_id")
    IN IF ~HasNode(st, node_id) THEN Raises("IndexError")
       ELSE LET r == _get_validation_actions(node_id, Get(tm, "expected_class"))
            IN IF r.exc # None THEN r
               ELSE task_result(TRUE, "Queued property validations", r.actions)

HashedIdentityStrings == {"md5$0123456789abcdef0123456789abcdef"}
EmailStrings == {"a@b.c"}
\* the strings s with 'email' in s
ContainsEmail == {"email", "x-email"}

identity_object_property_dependencies(st, tm) ==
    LET node_id == Get(tm, "node_id")
    IN IF ~HasNode(st, node_id) THEN Raises("IndexError")
       ELSE LET node == st[node_id]
                identity == IF "identity" \in DOMAIN node /\ ~node["identity"].list
                            THEN node["identity"].vals[1] ELSE None
                is_hashed == identity \in HashedIdentityStrings
                is_email == identity \in EmailStrings
                hashed == "hashed" \in DOMAIN node /\ Truthy(node["hashed"])
                type_iterable == /\ "type" \in DOMAIN node
                                 /\ node["type"].list \/ IsString(node["type"].vals[1])
                email_in_type ==
                    IF node["type"].list
                    THEN \E i \in 1..Len(node["type"].vals) : node["type"].vals[i] = "email"
                    ELSE node["type"].vals[1] \in ContainsEmail
            IN IF ~IsString(identity) THEN Raises("TypeError")    \* re.match on a non-string
               ELSE IF hashed /\ ~is_hashed
               THEN task_result(FALSE, "must match known hash style if hashed is true", << >>)
               ELSE IF is_hashed /\ ~hashed
               THEN task_result(FALSE, "must not be hashed if hashed is false", << >>)
               ELSE IF ~hashed /\ ~type_iterable THEN Raises("TypeError")
               ELSE IF ~hashed /\ email_in_type /\ ~is_email
               THEN task_result(FALSE, "Email type identity must match email format.", << >>)
               ELSE task_result(TRUE, "IdentityObject passes validation rules.", << >>)

\* a narrative demanded of every Criteria node
criteria_property_dependencies_narrative(st, tm) ==
    LET node_id == Get(tm, "node_id")
    IN IF ~HasNode(st, node_id) THEN Raises("IndexError")
       ELSE LET node == st[node_id]
                is_blank_id_node == node_id \in BlankNodeStrings
                narrative == "narrative" \in DOMAIN node /\ Truthy(node["narrative"])
            IN IF ~narrative
               THEN task_result(FALSE, "Either external id or narrative is required.", << >>)
               ELSE IF is_blank_id_node
               THEN task_result(TRUE, "narrative-based piece of evidence", << >>)
               ELSE task_result(TRUE, "has a URL and narrative", << >>)

criteria_property_dependencies(st, tm) ==
    LET node_id == Get(tm, "node_id")
    IN IF ~HasNode(st, node_id) THEN Raises("IndexError")
       ELSE LET node == st[node_id]
                is_blank_id_node == node_id \in BlankNodeStrings
                narrative == "narrative" \in DOMAIN node /\ Truthy(node["narrative"])
            IN IF is_blank_id_node /\ ~narrative
               THEN task_result(FALSE, "Either external id or narrative is required.", << >>)
               ELSE IF is_blank_id_node
               THEN task_result(TRUE, "narrative-based piece of evidence", << >>)
               ELSE IF narrative
               THEN task_result(TRUE, "has a URL and narrative", << >>)
               ELSE task_result(TRUE, "has a URL", << >>)

\* the scope check queued for the verification node, whatever its type
assertion_verification_dependencies_target(st, tm) ==
    IF "node_id" \notin DOMAIN tm \/ ~HasNode(st, tm["node_id"])
    THEN Raises("TaskPrerequisitesError")
    ELSE LET assertion_id == tm["node_id"]
             assertion_node == st[assertion_id]
         IN IF \/ "verification" \notin DOMAIN assertion_node
               \/ assertion_node["verification"].list
               \/ ~HasNode(st, assertion_node["verification"].vals[1])
            THEN Raises("TaskPrerequisitesError")
            ELSE task_result(TRUE, "verification dependencies noted",
                    <<add_task(HOSTED_ID_IN_VERIFICATION_SCOPE,
                               [node_id |-> assertion_node["verification"].vals[1]])>>)

assertion_verification_dependencies(st, tm) ==
    IF "node_id" \notin DOMAIN tm \/ ~HasNode(st, tm["node_id"])
    THEN Raises("TaskPrerequisitesError")
    ELSE LET assertion_id == tm["node_id"]
             assertion_node == st[assertion_id]
         IN IF \/ "verification" \notin DOMAIN assertion_node
               \/ assertion_node["verification"].list
               \/ ~HasNode(st, assertion_node["verification"].vals[1])
            THEN Raises("TaskPrerequisitesError")
            ELSE LET node == st[assertion_node["verification"].vals[1]]
                 IN task_result(TRUE, "verification dependencies noted",
                        IF GetIs(node, "type", "HostedBadge")
                        THEN <<add_task(HOSTED_ID_IN_VERIFICATION_SCOPE,
                                        [node_id |-> assertion_id])>>
                        ELSE << >>)

\* an assertion that counts as expired at the very instant it expires
ExpiredInclusive(expires, clock) == expires <= clock

\* expires < now
Expired(expires, clock) == expires < clock

\* datetime.now(utc) is the argument clock
assertion_timestamp_checks(st, tm, clock) ==
    IF "node_id" \notin DOMAIN tm \/ ~HasNode(st, tm["node_id"])
    THEN Raises("TaskPrerequisitesError")
    ELSE LET assertion == st[tm["node_id"]]
             issuedOn == IF "issuedOn" \in DOMAIN assertion /\ ~assertion["issuedOn"].list
                         THEN assertion["issuedOn"].vals[1] ELSE None
             expires == IF "expires" \in DOMAIN assertion /\ ~assertion["expires"].list
                        THEN assertion["expires"].vals[1] ELSE None
             has_expires == "expires" \in DOMAIN assertion /\ Truthy(assertion["expires"])
         IN IF "issuedOn" \notin DOMAIN assertion
            THEN Raises("TaskPrerequisitesError")                  \* KeyError
            ELSE IF ~IsString(issuedOn) THEN Raises("TypeError")   \* not a string to parse
            ELSE IF ~Parses(issuedOn)
            THEN Raises("TaskPrerequisitesError")                  \* ValueError
            ELSE LET issued_on == DatetimeTable[issuedOn]
                 IN IF ~issued_on.aware THEN Raises("TypeError")   \* naive > aware
                    ELSE IF issued_on.t > clock
                    THEN task_result(FALSE, "issue date in the future", << >>)
                    ELSE IF ~has_expires
                    THEN task_result(TRUE, "was issued and has not expired", << >>)
                    ELSE IF ~IsString(expires) THEN Raises("TypeError")
                    ELSE IF ~Parses(expires) THEN Raises("ValueError")
                    ELSE IF ~DatetimeTable[expires].aware THEN Raises("TypeError")
                    ELSE IF DatetimeTable[expires].t < issued_on.t
                    THEN task_result(FALSE, "expiration is prior to issue date", << >>)
                    ELSE IF Expired(DatetimeTable[expires].t, clock)
                    THEN task_result(FALSE, "expired", << >>)
                    ELSE task_result(TRUE, "was issued and has not expired", << >>)

issuer_property_dependencies(st, tm) ==
    task_result(TRUE, "No issuer property dependencies to check.", << >>)

(***************************************************************************)
(* The clock: ASSERTION_TIMESTAMP_CHECKS run at different wall-clock times *)
(* on one assertion.                                                       *)
(***************************************************************************)
MaxNow == 5
MaxRuns == 2

AssertionId == "http://e/a1"

IssuedOnValues == {"2001-01-01T00:00:00Z", "2002-01-01T00:00:00Z", "2003-01-01T00:00:00Z", "2002-01-01T00:00:00", "yesterday"}
ClockStores ==
    {(AssertionId :> [id |-> Scalar(AssertionId), type |-> Scalar("Assertion"),
                      issuedOn |-> Scalar(i)]) : i \in IssuedOnValues}
    \cup
    {(AssertionId :> [id |-> Scalar(AssertionId), type |-> Scalar("Assertion"),
                      issuedOn |-> Scalar(i), expires |-> Scalar(e)])
        : i \in IssuedOnValues, e \in {"2002-01-01T00:00:00Z", "2003-01-01T00:00:00Z", "2004-01-01T00:00:00Z", "soon"}}

TimestampTask ==
    [task_id |-> 1, complete |-> FALSE, name |-> ASSERTION_TIMESTAMP_CHECKS,
     node_id |-> AssertionId, node_class |-> "Assertion",
     task_type |-> ASSERTION_TIMESTAMP_CHECKS]

InitClock ==
    /\ tasks = <<TimestampTask>>
    /\ prev = << >>
    /\ inputAfter = << >>
    /\ action = [type |-> "INIT"]
    /\ raised = None
    /\ nsteps = 0
    /\ nodes \in ClockStores
    /\ pc = "clock"
    /\ outcome = NoOutcome
    /\ now = 0
    /\ runs = << >>

\* time passes
Tick ==
    /\ now < MaxNow
    /\ now' = now + 1
    /\ UNCHANGED <<rvars, nodes, pc, outcome, runs>>

\* one run of the handler, reading the clock
TimestampCheck ==
    /\ Len(runs) < MaxRuns
    /\ LET r == assertion_timestamp_checks(nodes, tasks[1], now)
       IN /\ outcome' = r
          /\ runs' = Append(runs, [clock |-> now, outcome |-> r])
    /\ UNCHANGED <<rvars, nodes, pc, now>>

NextClock == Tick \/ TimestampCheck

SpecClock == InitClock /\ [][NextClock]_vars

(***************************************************************************)
(* The handlers run one at a time: a node store drawn from the families    *)
(* below, and each step runs one handler on one task over that store.      *)
(***************************************************************************)
NodeId == "http://e/a1"
TargetId == "_:b0"
MissingId == "http://e/n2"

Empty == [k \in {} |-> None]

\* records with and without the key k, over the values vs
Opt(k, vs) == {Empty} \cup {(k :> x) : x \in vs}

\* the stores the handlers are run on, one family per handler:
\*   a Criteria node whose property "narrative" holds each kind of value,
\*   a node of each declared type,
\*   an identity object,
\*   an assertion and the node its verification names,
\*   a Criteria node with a blank-node id
HandlerStores ==
    {(NodeId :> ([id |-> Scalar(NodeId), type |-> Scalar("Criteria")] @@ n))
        : n \in Opt("narrative",
                    {Scalar("text"), Scalar(None), Scalar(PyTrue), Scalar(PyNumber),
                     Scalar(PyDict), Scalar(NodeId), Scalar(MissingId),
                     List(<< >>), List(<<None>>), List(<<None, None>>), List(<<"text">>),
                     List(<<"a", "b">>), List(<<PyNumber, "b">>)})}
    \cup
    {(NodeId :> ([id |-> Scalar(NodeId)] @@ t))
        : t \in Opt("type",
                    {Scalar(ALL_CLASSES[i]) : i \in 1..Len(ALL_CLASSES)}
                    \cup {Scalar("Foo"), Scalar("HostedBadge"), Scalar(""), Scalar(None),
                          List(<< >>), List(<<"Criteria">>), List(<<"Assertion", "Extra">>),
                          List(<<"Evidence", "Criteria">>)})}
    \cup
    {(NodeId :> ([id |-> Scalar(NodeId)] @@ i @@ h @@ t))
        : i \in Opt("identity", {Scalar("a@b.c"), Scalar("abc"), Scalar(PyNumber),
                                  Scalar("md5$0123456789abcdef0123456789abcdef")}),
          h \in Opt("hashed", {Scalar(PyTrue), Scalar(PyFalse)}),
          t \in Opt("type", {Scalar("email"), Scalar("id"), Scalar("x-email"),
                             List(<<"id", "email">>), List(<<"id">>)})}
    \cup
    {(NodeId :> ([id |-> Scalar(NodeId), type |-> Scalar("Assertion")] @@ v)) @@ o
        : v \in Opt("verification", {Scalar(NodeId), Scalar(TargetId), Scalar(MissingId)}),
          o \in Opt(TargetId, {[id |-> Scalar(TargetId)] @@ t
                                 : t \in Opt("type", {Scalar("HostedBadge"),
                                                      Scalar("SignedBadge")})})}
    \cup
    {(TargetId :> ([id |-> Scalar(TargetId), type |-> Scalar("Criteria")] @@ n))
        : n \in Opt("narrative", {Scalar("text"), Scalar(""), Scalar(None), List(<< >>)})}

\* a task of the queue as the driver hands it to its handler
Task(name, params) == [task_id |-> 1, complete |-> FALSE, name |-> name] @@ params

TaskNodeIds == {NodeId, MissingId}

ClassTasks(name) ==
    {Task(name, [node_id |-> n, node_class |-> "X", task_type |-> name]) : n \in TaskNodeIds}

InitHandlers ==
    /\ nodes \in HandlerStores
    /\ tasks = << >>
    /\ prev = << >>
    /\ inputAfter = << >>
    /\ action = [type |-> "INIT"]
    /\ raised = None
    /\ nsteps = 0
    /\ pc = "handlers"
    /\ outcome = NoOutcome
    /\ now = 3
    /\ runs = << >>

\* what a run of a handler leaves alone; tasks holds the task that was run
\* and outcome what the handler returned or raised
hvars == <<prev, inputAfter, action, raised, nsteps, nodes, pc, now, runs>>

ValidateProperty ==
    /\ pc = "handlers"
    /\ \E n \in TaskNodeIds, prop_type \in {"TEXT", "MARKDOWN_TEXT", "ID"}, r \in BOOLEAN,
          m \in Opt("many", {TRUE}), f \in Opt("fetch", {TRUE}) :
          LET t == Task(VALIDATE_PROPERTY,
                        [node_id |-> n, node_class |-> "Criteria", prop_name |-> "narrative",
                         prop_type |-> prop_type, required |-> r] @@ m @@ f)
          IN /\ tasks' = <<t>>
             /\ outcome' = validate_property(nodes, t)
    /\ UNCHANGED hvars

ValidateRdfTypeProperty ==
    /\ pc = "handlers"
    /\ \E n \in TaskNodeIds, r \in BOOLEAN, d \in Opt("default", {"Criteria"}),
          c \in Opt("must_contain_one", {<<"Criteria">>, <<"HostedBadge", "SignedBadge">>}) :
          LET t == Task(VALIDATE_RDF_TYPE_PROPERTY,
                        [node_id |-> n, node_class |-> "Criteria", prop_name |-> "type",
                         prop_type |-> "RDF_TYPE", required |-> r, many |-> TRUE] @@ d @@ c)
          IN /\ tasks' = <<t>>
             /\ outcome' = validate_rdf_type_property(nodes, t)
    /\ UNCHANGED hvars

DetectAndValidateNodeClass ==
    /\ pc = "handlers"
    /\ \E n \in TaskNodeIds :
          LET t == Task(DETECT_AND_VALIDATE_NODE_CLASS, [node_id |-> n])
          IN /\ tasks' = <<t>>
             /\ outcome' = detect_and_validate_node_class(nodes, t)
    /\ UNCHANGED hvars

ValidateExpectedNodeClass ==
    /\ pc = "handlers"
    /\ \E n \in TaskNodeIds,
          c \in Opt("expected_class",
                    {ALL_CLASSES[i] : i \in 1..Len(ALL_CLASSES)}
                    \cup {"VerificationObjectAssertion", "VerificationObjectIssuer"}) :
          LET t == Task(VALIDATE_EXPECTED_NODE_CLASS, [node_id |-> n] @@ c)
          IN /\ tasks' = <<t>>
             /\ outcome' = validate_expected_node_class(nodes, t)
    /\ UNCHANGED hvars

IdentityObjectPropertyDependencies ==
    /\ pc = "handlers"
    /\ \E t \in ClassTasks(IDENTITY_OBJECT_PROPERTY_DEPENDENCIES) :
          /\ tasks' = <<t>>
          /\ outcome' = identity_object_property_dependencies(nodes, t)
    /\ UNCHANGED hvars

CriteriaPropertyDependencies ==
    /\ pc = "handlers"
    /\ \E n \in TaskNodeIds \cup {TargetId} :
          LET t == Task(CRITERIA_PROPERTY_DEPENDENCIES,
                        [node_id |-> n, node_class |-> "Criteria",
                         task_type |-> CRITERIA_PROPERTY_DEPENDENCIES])
          IN /\ tasks' = <<t>>
             /\ outcome' = criteria_property_dependencies(nodes, t)
    /\ UNCHANGED hvars

AssertionVerificationDependencies ==
    /\ pc = "handlers"
    /\ \E t \in ClassTasks(ASSERTION_VERIFICATION_DEPENDENCIES) :
          /\ tasks' = <<t>>
          /\ outcome' = assertion_verification_dependencies(nodes, t)
    /\ UNCHANGED hvars

IssuerPropertyDependencies ==
    /\ pc = "handlers"
    /\ \E t \in ClassTasks(ISSUER_PROPERTY_DEPENDENCIES) :
          /\ tasks' = <<t>>
          /\ outcome' = issuer_property_dependencies(nodes, t)
    /\ UNCHANGED hvars

NextHandlers ==
    \/ ValidateProperty \/ ValidateRdfTypeProperty
    \/ DetectAndValidateNodeClass \/ ValidateExpectedNodeClass
    \/ IdentityObjectPropertyDependencies \/ CriteriaPropertyDependencies
    \/ AssertionVerificationDependencies \/ IssuerPropertyDependencies

SpecHandlers == InitHandlers /\ [][NextHandlers]_vars

(***************************************************************************)
(* The driver loop (section 4.10): run the lowest-id active task, resolve  *)
(* it, apply its follow-up actions.                                        *)
(***************************************************************************)
PyBool(b) == IF b THEN PyTrue ELSE PyFalse

\* resolve_task(task_id, success, result)
resolve_task(task_id, success, result) ==
    [type |-> RESOLVE_TASK, task_id |-> task_id,
     success |-> PyBool(success), result |-> result]

\* the queue task_reducer returns for queue q and action a
Reduce(q, a) ==
    LET r == task_reducer(HeapOf(q), 1, a)
    IN IF r.raised = None THEN Deref(r.heap, r.ret) ELSE q

\* PATCH_NODE: merge the patch into the named node; no node is created
PatchNode(st, a) ==
    IF a["node_id"] \in DOMAIN st
    THEN [st EXCEPT ![a["node_id"]] = DictUpdate(@, a["data"])]
    ELSE st

\* one follow-up action applied to the node store and the queue
ApplyAction(s, a) ==
    IF a["type"] = "PATCH_NODE"
    THEN [nodes |-> PatchNode(s.nodes, a), tasks |-> s.tasks]
    ELSE [nodes |-> s.nodes, tasks |-> Reduce(s.tasks, a)]

\* the store after the actions acts, applied in order (each intermediate
\* store is bound as a value before the next action is applied)
RECURSIVE ApplyActions(_, _)
ApplyActions(s, acts) ==
    IF Len(acts) = 0 THEN s
    ELSE CHOOSE r \in {ApplyActions(x, Tail(acts)) : x \in {ApplyAction(s, Head(acts))}} : TRUE

\* filter_active_tasks, as positions in the queue
ActiveTasks(q) == {i \in 1..Len(q) : ~q[i]["complete"]}

\* the active task with the lowest task_id
NextTask(q) ==
    LET A == ActiveTasks(q)
    IN q[CHOOSE i \in A : \A j \in A : q[i]["task_id"] <= q[j]["task_id"]]

\* the task kinds whose handlers live in tasks/validation.py
HandledTasks ==
    {DETECT_AND_VALIDATE_NODE_CLASS, VALIDATE_EXPECTED_NODE_CLASS,
     VALIDATE_PROPERTY, VALIDATE_RDF_TYPE_PROPERTY} \cup CLASS_VALIDATION_TASKS

\* dispatch by task name
Handle(st, t, clock) ==
    CASE t["name"] = DETECT_AND_VALIDATE_NODE_CLASS -> detect_and_validate_node_class(st, t)
      [] t["name"] = VALIDATE_EXPECTED_NODE_CLASS -> validate_expected_node_class(st, t)
      [] t["name"] = VALIDATE_PROPERTY -> validate_property(st, t)
      [] t["name"] = VALIDATE_RDF_TYPE_PROPERTY -> validate_rdf_type_property(st, t)
      [] t["name"] = ASSERTION_TIMESTAMP_CHECKS -> assertion_timestamp_checks(st, t, clock)
      [] t["name"] = ASSERTION_VERIFICATION_DEPENDENCIES -> assertion_verification_dependencies(st, t)
      [] t["name"] = CRITERIA_PROPERTY_DEPENDENCIES -> criteria_property_dependencies(st, t)
      [] t["name"] = IDENTITY_OBJECT_PROPERTY_DEPENDENCIES -> identity_object_property_dependencies(st, t)
      [] t["name"] = ISSUER_PROPERTY_DEPENDENCIES -> issuer_property_dependencies(st, t)

\* the node stores the driver is started on: a root node and at most one
\* other node, with references to themselves, to each other and to a
\* remote URL
RootId == "http://e/a1"
OtherId == "_:b0"
RemoteUrl == "http://e/x"
RefTargets == {RootId, OtherId}

NodeShapes(self) ==
    {[id |-> Scalar(self), type |-> Scalar("Assertion"), recipient |-> Scalar(r),
      badge |-> Scalar("http://e/bc1"), verification |-> Scalar(v),
      issuedOn |-> Scalar("2002-01-01T00:00:00Z"), evidence |-> List(ev)]
        : r \in RefTargets, v \in RefTargets,
          ev \in {<<self>>, <<OtherId, RemoteUrl>>}}
    \cup
    {[id |-> Scalar(self), type |-> Scalar("BadgeClass"), issuer |-> Scalar(RemoteUrl),
      name |-> Scalar("n"), description |-> Scalar("d"), image |-> Scalar(RemoteUrl),
      criteria |-> Scalar(c), alignment |-> List(<<c>>)] : c \in RefTargets}
    \cup
    {[id |-> Scalar(self), type |-> Scalar("Profile"), name |-> Scalar("n"),
      url |-> Scalar(RemoteUrl), email |-> Scalar("a@b.c"),
      verification |-> Scalar(v)] : v \in RefTargets}
    \cup
    {[id |-> Scalar(self), type |-> Scalar("email"), identity |-> Scalar("a@b.c"),
      hashed |-> Scalar(PyFalse)],
     [id |-> Scalar(self), type |-> Scalar("HostedBadge")],
     [id |-> Scalar(self), narrative |-> Scalar("text")],
     [id |-> Scalar(self), type |-> Scalar("Criteria")],
     [id |-> Scalar(self), type |-> Scalar("Foo")],
     [id |-> Scalar(self), type |-> List(<<"Assertion", "Extra">>)]}

DriverStores ==
    {(RootId :> a) : a \in NodeShapes(RootId)}
    \cup
    {(RootId :> a) @@ (OtherId :> b) : a \in NodeShapes(RootId), b \in NodeShapes(OtherId)}

\* the seed: ADD_TASK(DETECT_AND_VALIDATE_NODE_CLASS, node_id = root)
InitDriver ==
    /\ nodes \in DriverStores
    /\ tasks = Reduce(<< >>, add_task(DETECT_AND_VALIDATE_NODE_CLASS, [node_id |-> RootId]))
    /\ prev = << >>
    /\ inputAfter = << >>
    /\ action = [type |-> "INIT"]
    /\ raised = None
    /\ nsteps = 0
    /\ pc = "running"
    /\ outcome = NoOutcome
    /\ now = 3
    /\ runs = << >>

\* steps 3 to 6 for a task whose handler returns or raises
\* TaskPrerequisitesError
RunTask ==
    /\ pc = "running" /\ ActiveTasks(tasks) # {}
    /\ LET t == NextTask(tasks)
           r == Handle(nodes, t, now)
       IN /\ t["name"] \in HandledTasks
          /\ r.exc \in {None, "TaskPrerequisitesError"}
          /\ outcome' = r
          /\ \E s2 \in {ApplyActions(
                        [nodes |-> nodes,
                         tasks |-> Reduce(tasks, resolve_task(t["task_id"], r.success, r.message))],
                        r.actions)} :
                nodes' = s2.nodes /\ tasks' = s2.tasks
    /\ UNCHANGED <<prev, inputAfter, action, raised, nsteps, pc, now, runs>>

\* a handler raised another exception: the engine halts (section 7)
HandlerError ==
    /\ pc = "running" /\ ActiveTasks(tasks) # {}
    /\ LET t == NextTask(tasks)
           r == Handle(nodes, t, now)
       IN /\ t["name"] \in HandledTasks
          /\ r.exc \notin {None, "TaskPrerequisitesError"}
          /\ outcome' = r
    /\ pc' = "halted"
    /\ UNCHANGED <<rvars, nodes, now, runs>>

\* FETCH_HTTP_NODE and HOSTED_ID_IN_VERIFICATION_SCOPE are resolved by their
\* collaborators
CollaboratorResolves ==
    /\ pc = "running" /\ ActiveTasks(tasks) # {}
    /\ LET t == NextTask(tasks)
       IN /\ t["name"] \notin HandledTasks
          /\ \E s \in BOOLEAN :
                tasks' = Reduce(tasks, resolve_task(t["task_id"], s, "resolved"))
    /\ outcome' = NoOutcome
    /\ UNCHANGED <<prev, inputAfter, action, raised, nsteps, nodes, pc, now, runs>>

\* step 2: no active task remains
Terminate ==
    /\ pc = "running" /\ ActiveTasks(tasks) = {}
    /\ pc' = "done"
    /\ UNCHANGED <<rvars, nodes, outcome, now, runs>>

NextDriver == RunTask \/ HandlerError \/ CollaboratorResolves \/ Terminate

SpecDriver == InitDriver /\ [][NextDriver]_vars

(***************************************************************************)
(* The driver loop on one node checked against an expected class: the node *)
(* holds an acceptable value for every property of the class's table but   *)
(* one required property.                                                  *)
(***************************************************************************)
\* the positions of the property specs in a validator table
PropSpecs(validators) == {i \in 1..Len(validators) : "prop_name" \in DOMAIN validators[i]}

\* the property names a table marks required
RequiredProps(class_name) ==
    LET validators == ClassValidators(class_name)
    IN {validators[i]["prop_name"] : i \in {j \in PropSpecs(validators) :
                                             GetBool(validators[j], "required")}}

\* a value the primitive validator of the spec's type accepts; an ID refers
\* to a remote URL
AcceptableValue(class_name, validator) ==
    CASE validator["prop_type"] = "RDF_TYPE" ->
            IF "must_contain_one" \in DOMAIN validator
            THEN Scalar(validator["must_contain_one"][1])
            ELSE Scalar(class_name)
      [] validator["prop_type"] = "BOOLEAN" -> Scalar(PyFalse)
      [] validator["prop_type"] = "DATETIME" -> Scalar("2002-01-01T00:00:00Z")
      [] validator["prop_type"] \in {"TEXT", "MARKDOWN_TEXT"} -> Scalar("text")
      [] validator["prop_type"] = "IDENTITY_HASH" -> Scalar("a@b.c")
      [] validator["prop_type"] = "IRI" /\ validator["prop_name"] = "id" -> Scalar(NodeId)
      [] OTHER -> Scalar(RemoteUrl)

\* the node of class class_name with every property of the table
FullNode(class_name) ==
    LET validators == ClassValidators(class_name)
    IN [p \in {validators[i]["prop_name"] : i \in PropSpecs(validators)} |->
            AcceptableValue(class_name,
                validators[CHOOSE i \in PropSpecs(validators) : validators[i]["prop_name"] = p])]

\* the seed: ADD_TASK(VALIDATE_EXPECTED_NODE_CLASS, node_id, expected_class)
InitRequired ==
    /\ \E c \in ImplementedClasses :
          /\ nodes \in {(NodeId :> Without(FullNode(c), {p}))
                            : p \in RequiredProps(c) \cup {"none"}}
          /\ tasks = Reduce(<< >>, add_task(VALIDATE_EXPECTED_NODE_CLASS,
                                           [node_id |-> NodeId, expected_class |-> c]))
    /\ prev = << >>
    /\ inputAfter = << >>
    /\ action = [type |-> "INIT"]
    /\ raised = None
    /\ nsteps = 0
    /\ pc = "running"
    /\ outcome = NoOutcome
    /\ now = 3
    /\ runs = << >>

SpecRequired == InitRequired /\ [][NextDriver]_vars

(***************************************************************************)
(* validate_property on an ID-typed property: the node NodeId refers to    *)
(* other nodes through the property "evidence", and two of the ids it may  *)
(* hold name nodes of the store.                                           *)
(***************************************************************************)
MaxIds == 2

LocalUrl == "http://e/bc1"
\* a local blank node, a local node with a URL id, a URL with no local
\* node, an IRI that is no URL and has no local node, and a string that is
\* no IRI
IdAtoms == {TargetId, LocalUrl, RemoteUrl, "urn:uuid:1", "text"}

IdStores ==
    {(NodeId :> ([id |-> Scalar(NodeId), type |-> Scalar("Assertion")] @@ e))
     @@ (TargetId :> [id |-> Scalar(TargetId)])
     @@ (LocalUrl :> [id |-> Scalar(LocalUrl)])
        : e \in Opt("evidence",
                    {Scalar(a) : a \in IdAtoms \cup {None}}
                    \cup {List(s) : s \in UNION {[1..n -> IdAtoms] : n \in 0..MaxIds}}
                    \cup {List(<<None>>)})}

InitIds ==
    /\ nodes \in IdStores
    /\ tasks = << >>
    /\ prev = << >>
    /\ inputAfter = << >>
    /\ action = [type |-> "INIT"]
    /\ raised = None
    /\ nsteps = 0
    /\ pc = "ids"
    /\ outcome = NoOutcome
    /\ now = 3
    /\ runs = << >>

ValidateIdProperty ==
    /\ pc = "ids"
    /\ \E n \in TaskNodeIds, r \in BOOLEAN, m \in Opt("many", {TRUE}),
          f \in Opt("fetch", {TRUE}), a \in Opt("allow_remote_url", {TRUE}) :
          LET t == Task(VALIDATE_PROPERTY,
                        [node_id |-> n, node_class |-> "Assertion", prop_name |-> "evidence",
                         prop_type |-> "ID", expected_class |-> "Evidence", required |-> r]
                        @@ m @@ f @@ a)
          IN /\ tasks' = <<t>>
             /\ outcome' = validate_property(nodes, t)
    /\ UNCHANGED hvars



SpecIds == InitIds /\ [][ValidateIdProperty]_vars

(***************************************************************************)
(* tasks/extensions.py: validate_extension_node, run by the driver loop on *)
(* one node until no task is active.                                       *)
(***************************************************************************)
MaxExtensionRuns == 5

VALIDATE_EXTENSION_NODE == "VALIDATE_EXTENSION_NODE"

\* the keys of the extension registry, in the order keys() yields them
ALL_KNOWN_EXTENSIONS ==
    <<"extensions:ApplyLink", "extensions:Endorsement", "extensions:Location">>

KnownExtensions == {ALL_KNOWN_EXTENSIONS[i] : i \in 1..Len(ALL_KNOWN_EXTENSIONS)}

\* list_of(value): a scalar as a one-element list
list_of(v) == v.vals

\* get_node_by_path(state, path): the node a path leads to; a path is
\* modelled by the id of the node at its end
get_node_by_path(st, path) == st[path[1]]

\* the task names its node by node_id
ByNodeId(tm) == "node_id" \in DOMAIN tm /\ TruthyAtom(tm["node_id"])

\* the first try block goes through: the lookup by node_id or node_path,
\* node['id'] and node['type'] raise nothing
HasExtensionNode(st, tm) ==
    IF ByNodeId(tm)
    THEN HasNode(st, tm["node_id"]) /\ "type" \in DOMAIN st[tm["node_id"]]
    ELSE /\ "node_path" \in DOMAIN tm
         /\ HasNode(st, tm["node_path"][1])
         /\ {"id", "type"} \subseteq DOMAIN get_node_by_path(st, tm["node_path"])

\* the node the task names
ExtensionNode(st, tm) ==
    IF ByNodeId(tm) THEN st[tm["node_id"]] ELSE get_node_by_path(st, tm["node_path"])

\* _validate_single_extension(node, extension_type, node_json); valid is
\* what jsonschema.validate finds for the compacted node
_validate_single_extension(node, extension_type, node_json, valid) ==
    IF extension_type \notin KnownExtensions
    THEN Raises("KeyError")
    ELSE IF valid
    THEN task_result(TRUE, "Extension validated on node", << >>)
    ELSE task_result(FALSE, "Extension did not validate on node", << >>)

\* every child task carrying the same type_to_test, the first of the registry
validate_extension_node_onetype(st, tm, valid) ==
    LET node == ExtensionNode(st, tm)
    IN IF ~HasExtensionNode(st, tm) THEN Raises("TaskPrerequisitesError")
       ELSE LET node_id == IF ByNodeId(tm) THEN tm["node_id"] ELSE node["id"].vals[1]
                node_type == list_of(node["type"])
                InType(t) == \E i \in 1..Len(node_type) : node_type[i] = t
                types_to_test == IF "type_to_test" \in DOMAIN tm
                                 THEN <<tm["type_to_test"]>>
                                 ELSE SelectSeq(ALL_KNOWN_EXTENSIONS, InType)
            IN IF Len(types_to_test) = 0
               THEN task_result(FALSE, "Could not determine extension type to test", << >>)
               ELSE IF Len(types_to_test) > 1
               THEN task_result(TRUE, "Multiple extension types discovered in node",
                        [k \in 1..Len(types_to_test) |->
                            add_task(VALIDATE_EXTENSION_NODE,
                                     [node_id |-> node_id, node_json |-> Get(tm, "node_json"),
                                      type_to_test |-> types_to_test[1]])])
               ELSE _validate_single_extension(node, types_to_test[1],
                                               Get(tm, "node_json"), valid)

validate_extension_node(st, tm, valid) ==
    LET node == ExtensionNode(st, tm)
    IN IF ~HasExtensionNode(st, tm) THEN Raises("TaskPrerequisitesError")
       ELSE LET node_id == IF ByNodeId(tm) THEN tm["node_id"] ELSE node["id"].vals[1]
                node_type == list_of(node["type"])
                InType(t) == \E i \in 1..Len(node_type) : node_type[i] = t
                types_to_test == IF "type_to_test" \in DOMAIN tm
                                 THEN <<tm["type_to_test"]>>
                                 ELSE SelectSeq(ALL_KNOWN_EXTENSIONS, InType)
            IN IF Len(types_to_test) = 0
               THEN task_result(FALSE, "Could not determine extension type to test", << >>)
               ELSE IF Len(types_to_test) > 1
               THEN task_result(TRUE, "Multiple extension types discovered in node",
                        [k \in 1..Len(types_to_test) |->
                            add_task(VALIDATE_EXTENSION_NODE,
                                     [node_id |-> node_id, node_json |-> Get(tm, "node_json"),
                                      type_to_test |-> types_to_test[k]])])
               ELSE _validate_single_extension(node, types_to_test[1],
                                               Get(tm, "node_json"), valid)

ExtensionStores ==
    {(NodeId :> ([id |-> Scalar(NodeId)] @@ t))
        : t \in Opt("type",
                    {Scalar("Assertion"), Scalar("extensions:ApplyLink"),
                     List(<< >>), List(<<"Assertion">>),
                     List(<<"Assertion", "extensions:Location">>),
                     List(<<"extensions:Endorsement", "extensions:ApplyLink">>),
                     List(<<"extensions:Location", "extensions:Location">>),
                     List(<<"Assertion", "extensions:ApplyLink", "extensions:Endorsement",
                            "extensions:Location">>)})}
    \cup {(NodeId :> [type |-> List(<<"extensions:ApplyLink", "extensions:Location">>)])}

InitExtensions ==
    /\ nodes \in ExtensionStores
    /\ \E n \in {Empty} \cup {[node_id |-> i] : i \in TaskNodeIds}
                 \cup {[node_path |-> <<i>>] : i \in TaskNodeIds},
          t \in Opt("type_to_test", {"extensions:ApplyLink", "extensions:Unknown"}),
          j \in Opt("node_json", {"{}"}) :
          tasks = Reduce(<< >>, add_task(VALIDATE_EXTENSION_NODE, n @@ t @@ j))
    /\ prev = << >>
    /\ inputAfter = << >>
    /\ action = [type |-> "INIT"]
    /\ raised = None
    /\ nsteps = 0
    /\ pc = "extensions"
    /\ outcome = NoOutcome
    /\ now = 3
    /\ runs = << >>

\* the lowest-id active task run: its handler returns or raises
\* TaskPrerequisitesError, the task is resolved and the follow-up actions
\* are applied; prev keeps the queue the task was taken from
ValidateExtensionNode ==
    /\ pc = "extensions" /\ ActiveTasks(tasks) # {} /\ nsteps < MaxExtensionRuns
    /\ \E valid \in BOOLEAN :
          LET t == NextTask(tasks)
              r == validate_extension_node(nodes, t, valid)
          IN /\ r.exc \in {None, "TaskPrerequisitesError"}
             /\ outcome' = r
             /\ \E s2 \in {ApplyActions(
                             [nodes |-> nodes,
                              tasks |-> Reduce(tasks, resolve_task(t["task_id"], r.success,
                                                                   r.message))],
                             r.actions)} :
                   tasks' = s2.tasks
    /\ prev' = tasks
    /\ nsteps' = nsteps + 1
    /\ UNCHANGED <<inputAfter, action, raised, nodes, pc, now, runs>>

\* the handler raised another exception: the engine halts (section 7)
ExtensionError ==
    /\ pc = "extensions" /\ ActiveTasks(tasks) # {} /\ nsteps < MaxExtensionRuns
    /\ \E valid \in BOOLEAN :
          LET r == validate_extension_node(nodes, NextTask(tasks), valid)
          IN /\ r.exc \notin {None, "TaskPrerequisitesError"}
             /\ outcome' = r
    /\ prev' = tasks
    /\ nsteps' = nsteps + 1
    /\ pc' = "halted"
    /\ UNCHANGED <<tasks, inputAfter, action, raised, nodes, now, runs>>

\* no active task remains
ExtensionsDone ==
    /\ pc = "extensions" /\ ActiveTasks(tasks) = {}
    /\ pc' = "done"
    /\ UNCHANGED <<rvars, nodes, outcome, now, runs>>

NextExtensions == ValidateExtensionNode \/ ExtensionError \/ ExtensionsDone

SpecExtensions == InitExtensions /\ [][NextExtensions]_vars

(***************************************************************************)
(* Properties of the reducer                                               *)
(***************************************************************************)
IsItemAction(a) == a["type"] \in {RESOLVE_TASK, UPDATE_TASK}

\* the last call was an effective RESOLVE_TASK or UPDATE_TASK on task i
ActedOn(i) ==
    /\ IsItemAction(action) /\ raised = None
    /\ "task_id" \in DOMAIN action
    /\ i \in 1..Len(prev) /\ prev[i]["task_id"] = action["task_id"]

\* C1: the task_ids of the queue, read in order, are exactly 1, 2, ..., n:
\* every accepted ADD_TASK gets the last id plus 1 and a dropped duplicate
\* consumes no id.
C1_TaskIdsSequential ==
    /\ \A i \in 1..Len(tasks) : tasks[i]["task_id"] = i
    /\ (action["type"] = ADD_TASK /\ Len(tasks) = Len(prev)) => tasks = prev

\* a third task was appended after some ADD_TASK had been dropped
C1_Witness ==
    /\ action["type"] = ADD_TASK /\ Len(tasks) = Len(prev) + 1
    /\ Len(tasks) = 3 /\ nsteps = 4
    /\ \A i \in 1..Len(tasks) : DOMAIN tasks[i] \cap {"success", "result"} = {}

NoDuplicates(q) ==
    \A i, j \in 1..Len(q) : i # j =>
        /\ ~( /\ Get(q[i], "name") = VALIDATE_EXPECTED_NODE_CLASS
              /\ Get(q[j], "name") = VALIDATE_EXPECTED_NODE_CLASS
              /\ Get(q[i], "node_id") = Get(q[j], "node_id") )
        /\ ~( /\ Get(q[i], "name") \in {VALIDATE_PROPERTY, VALIDATE_RDF_TYPE_PROPERTY}
              /\ Get(q[i], "name") = Get(q[j], "name")
              /\ Get(q[i], "node_id") = Get(q[j], "node_id")
              /\ Get(q[i], "prop_name") = Get(q[j], "prop_name") )

\* C2 as stated: in every queue reachable by ADD_TASK, RESOLVE_TASK and
\* UPDATE_TASK actions no two tasks share the deduplication key.
C2_Original == NoDuplicates(tasks)

ChangesKey(a) ==
    a["type"] = UPDATE_TASK /\ DOMAIN a \cap {"name", "node_id", "prop_name"} # {}

\* C2 amended: a queue without two tasks sharing the deduplication key stays
\* so under every ADD_TASK, every RESOLVE_TASK and every UPDATE_TASK whose
\* payload carries none of name, node_id, prop_name.
C2_NoDuplicatesKept ==
    [][(NoDuplicates(tasks) /\ ~ChangesKey(action')) => NoDuplicates(tasks')]_vars

\* an ADD_TASK(VALIDATE_PROPERTY) met a task with its node_id and prop_name
\* and was dropped
C2_Witness ==
    /\ action["type"] = ADD_TASK /\ action["name"] = VALIDATE_PROPERTY
    /\ raised = None /\ tasks = prev /\ NoDuplicates(tasks)
    /\ \E i \in 1..Len(prev) :
          /\ Get(prev[i], "node_id") = action["node_id"]
          /\ Get(prev[i], "prop_name") = action["prop_name"]

StaysComplete ==
    \A i \in 1..Len(tasks) :
        tasks[i]["complete"] => (i <= Len(tasks') /\ tasks'[i]["complete"])

\* C3 as stated: once a task's complete flag is true it is true in every
\* later state, whatever action with whatever payload is applied.
C3_Original == [][StaysComplete]_vars

ClearsComplete(a) ==
    a["type"] = UPDATE_TASK /\ "complete" \in DOMAIN a /\ a["complete"] = FALSE

\* C3 amended: a complete task stays complete under every ADD_TASK, every
\* RESOLVE_TASK and every UPDATE_TASK whose payload does not carry
\* complete = false.
C3_CompleteMonotonic == [][(~ClearsComplete(action')) => StaysComplete]_vars

\* a task that was already complete was resolved or updated again and is
\* still complete
C3_Witness ==
    \E i \in 1..Len(prev) :
        ActedOn(i) /\ prev[i]["complete"] /\ tasks[i]["complete"] /\ tasks # prev

\* the deduplication key of section 4.2, stated on the queue
IsDuplicate(q, a) ==
    \/ /\ a["name"] = VALIDATE_EXPECTED_NODE_CLASS
       /\ \E i \in 1..Len(q) : /\ Get(q[i], "name") = a["name"]
                               /\ Get(q[i], "node_id") = Get(a, "node_id")
    \/ /\ a["name"] \in {VALIDATE_PROPERTY, VALIDATE_RDF_TYPE_PROPERTY}
       /\ \E i \in 1..Len(q) : /\ Get(q[i], "node_id") = Get(a, "node_id")
                               /\ Get(q[i], "prop_name") = Get(a, "prop_name")

\* C4: a duplicate ADD_TASK leaves the queue unchanged (length, ids,
\* completion state and parameters of the earlier task), also when it
\* carries other parameters; the same ADD_TASK(VALIDATE_PROPERTY) fed twice
\* grows the queue by exactly 1.
C4_DuplicateDropped ==
    [][ /\ (action'["type"] = ADD_TASK /\ IsDuplicate(tasks, action'))
            => (tasks' = tasks /\ raised' = None)
        /\ ( /\ action' = action /\ action["type"] = ADD_TASK
             /\ action["name"] = VALIDATE_PROPERTY /\ ~IsDuplicate(prev, action) )
            => Len(tasks') = Len(prev) + 1 ]_vars

\* a duplicate carrying another expected_class or required was dropped
C4_Witness ==
    /\ action["type"] = ADD_TASK /\ tasks = prev /\ IsDuplicate(prev, action)
    /\ \E i \in 1..Len(prev) :
          /\ Get(prev[i], "name") = action["name"]
          /\ Get(prev[i], "node_id") = Get(action, "node_id")
          /\ Get(prev[i], "prop_name") = Get(action, "prop_name")
          /\ \/ Get(prev[i], "expected_class") # Get(action, "expected_class")
             \/ ("required" \in DOMAIN action /\ prev[i]["required"] # action["required"])

\* C5: a RESOLVE_TASK or UPDATE_TASK whose task_id matches no task returns
\* the state unchanged and raises no error.
C5_UnknownIdUnchanged ==
    ( /\ IsItemAction(action) /\ "task_id" \in DOMAIN action
      /\ \A i \in 1..Len(prev) : prev[i]["task_id"] # action["task_id"] )
    => (raised = None /\ tasks = prev)

\* C6: task_reducer never mutates its input: after the call the list that
\* was passed in has the same length, order and field values as before.
C6_InputNotMutated == inputAfter = prev

\* a RESOLVE_TASK or UPDATE_TASK returned a queue that differs from its input
C6_Witness == \E i \in 1..Len(prev) : ActedOn(i) /\ tasks # prev

\* C7: RESOLVE_TASK and UPDATE_TASK change only the task named by task_id:
\* length, order and every other task are unchanged and the named task
\* keeps its task_id.
C7_OnlyNamedTaskChanges ==
    [][ (IsItemAction(action') /\ raised' = None) =>
          /\ Len(tasks') = Len(tasks)
          /\ \A i \in 1..Len(tasks) :
                /\ tasks'[i]["task_id"] = tasks[i]["task_id"]
                /\ ("task_id" \in DOMAIN action' /\ tasks[i]["task_id"] = action'["task_id"])
                      \/ tasks'[i] = tasks[i] ]_vars

\* the second of at least two tasks was changed by an UPDATE_TASK
C7_Witness ==
    /\ action["type"] = UPDATE_TASK /\ Len(tasks) >= 2
    /\ ActedOn(2) /\ tasks[2] # prev[2] /\ tasks[1] = prev[1]

ActiveUnset(q) ==
    \A i \in 1..Len(q) : (~q[i]["complete"]) => DOMAIN q[i] \cap {"success", "result"} = {}

OutcomeFrozen ==
    \A i \in 1..Len(tasks) : tasks[i]["complete"] =>
        /\ i <= Len(tasks')
        /\ Get(tasks'[i], "success") = Get(tasks[i], "success")
        /\ Get(tasks'[i], "result") = Get(tasks[i], "result")

\* C8 as stated: a task with complete = false never has success or result
\* set, and no action changes the success or result of a complete task.
C8_Original == [][ActiveUnset(tasks') /\ OutcomeFrozen]_vars

TouchesOutcome(q, a) ==
    \/ /\ a["type"] = UPDATE_TASK
       /\ \/ DOMAIN a \cap {"success", "result"} # {}
          \/ ("complete" \in DOMAIN a /\ a["complete"] = FALSE)
    \/ /\ a["type"] = RESOLVE_TASK /\ "task_id" \in DOMAIN a
       /\ \E i \in 1..Len(q) : q[i]["task_id"] = a["task_id"] /\ q[i]["complete"]

\* C8 amended: as long as no UPDATE_TASK carries success, result or
\* complete = false and no RESOLVE_TASK names a task that is already
\* complete, active tasks have no success or result set and a complete
\* task's success and result do not change.
C8_OutcomeSetOnce ==
    [][ (~TouchesOutcome(tasks, action')) =>
          /\ ActiveUnset(tasks) => ActiveUnset(tasks')
          /\ OutcomeFrozen ]_vars

\* a RESOLVE_TASK took an active task to complete and set its success
C8_Witness ==
    \E i \in 1..Len(prev) :
        /\ ActedOn(i) /\ action["type"] = RESOLVE_TASK
        /\ ~prev[i]["complete"] /\ "success" \notin DOMAIN prev[i]
        /\ tasks[i]["complete"] /\ tasks[i]["success"] = action["success"]

\* C19: task_reducer drops an ADD_TASK exactly when the deduplication
\* predicate holds (VALIDATE_EXPECTED_NODE_CLASS: an existing task, complete
\* or not, with the same name and node_id; VALIDATE_PROPERTY and
\* VALIDATE_RDF_TYPE_PROPERTY: an existing task with the same node_id and
\* prop_name); every other ADD_TASK appends exactly one task carrying the
\* payload, also when an identical task is queued.
C19_DroppedIffDuplicate ==
    [][ action'["type"] = ADD_TASK =>
          /\ raised' = None
          /\ IsDuplicate(tasks, action') => tasks' = tasks
          /\ ~IsDuplicate(tasks, action') =>
                /\ Len(tasks') = Len(tasks) + 1
                /\ SubSeq(tasks', 1, Len(tasks)) = tasks
                /\ \A k \in DOMAIN action' \ {"type"} :
                       tasks'[Len(tasks')][k] = action'[k] ]_vars

\* a FETCH_HTTP_NODE task was appended as the third task, next to an
\* identical one and to a VALIDATE_PROPERTY task, after four calls of which
\* one added nothing
C19_Witness ==
    /\ action["type"] = ADD_TASK /\ action["name"] = FETCH_HTTP_NODE
    /\ Len(tasks) = Len(prev) + 1 /\ nsteps = 4 /\ Len(tasks) = 3
    /\ \E i \in 1..Len(prev) :
          /\ Get(prev[i], "name") = FETCH_HTTP_NODE
          /\ Get(prev[i], "url") = action["url"]
          /\ Get(prev[i], "expected_class") = action["expected_class"]
    /\ \E i \in 1..Len(prev) :
          /\ Get(prev[i], "name") = VALIDATE_PROPERTY
          /\ Get(prev[i], "node_id") = "n1" /\ Get(prev[i], "prop_name") = "p1"
    /\ \A i \in 1..Len(prev) : Get(prev[i], "name") # VALIDATE_RDF_TYPE_PROPERTY

InstantBetween(st, n1, n2) ==
    LET a == st[AssertionId]
        i == a["issuedOn"].vals[1]
        e == a["expires"].vals[1]
    IN \/ Parses(i) /\ n1 < DatetimeTable[i].t /\ DatetimeTable[i].t <= n2
       \/ /\ "expires" \in DOMAIN a /\ Parses(e)
          /\ n1 <= DatetimeTable[e].t /\ DatetimeTable[e].t < n2

C10_StopsWithNoActive ==
    (pc \in {"done", "halted"}) => ActiveTasks(tasks) = {}

\* the handlers add finitely many tasks: at most one
\* VALIDATE_EXPECTED_NODE_CLASS per node and one property task per node and
\* property
DriverQueueDeduplicated == pc # "idle" => NoDuplicates(tasks)

(***************************************************************************)
(* Properties of the handlers                                              *)
(***************************************************************************)
\* the last step ran the handler of a task named name
RanTask(name) == pc = "handlers" /\ Len(tasks) = 1 /\ tasks[1]["name"] = name

\* the node the task names, when the store holds it
TaskNodePresent == HasNode(nodes, tasks[1]["node_id"])

\* C12: when the node named by node_id is not in the node store,
\* validate_property, validate_rdf_type_property and
\* validate_expected_node_class end with TaskPrerequisitesError, not with a
\* success, a validation failure or another error.
C12_MissingNodeIsPrerequisiteError ==
    ( /\ \/ RanTask(VALIDATE_PROPERTY) \/ RanTask(VALIDATE_RDF_TYPE_PROPERTY)
         \/ RanTask(VALIDATE_EXPECTED_NODE_CLASS)
      /\ ~TaskNodePresent )
        => outcome.exc = "TaskPrerequisitesError"

\* C13: detect_and_validate_node_class succeeds for every node present in
\* the store: a type equal to a class of ALL_CLASSES with a validator table
\* queues that class's validation tasks; a type that matches no class
\* (unknown, list-valued, missing) or names a class without a validator
\* table still gives success, not an exception.
C13_DetectAlwaysSucceeds ==
    (RanTask(DETECT_AND_VALIDATE_NODE_CLASS) /\ TaskNodePresent) =>
        /\ outcome.exc = None /\ outcome.success
        /\ LET node_class == DetectedClass(nodes[tasks[1]["node_id"]])
           IN node_class \in ImplementedClasses =>
                 outcome.actions =
                    _get_validation_actions(tasks[1]["node_id"], node_class).actions

\* C14: the primitive validator for MARKDOWN_TEXT accepts a value if and
\* only if it is a string, so a MARKDOWN_TEXT property gets the verdict a
\* TEXT property gets on every value (booleans, numbers, null and nested
\* nodes are rejected).
C14_MarkdownIsText ==
    ( /\ RanTask(VALIDATE_PROPERTY) /\ TaskNodePresent
      /\ tasks[1]["prop_type"] = "MARKDOWN_TEXT" ) =>
        /\ outcome.success =
              validate_property(nodes, [tasks[1] EXCEPT !["prop_type"] = "TEXT"]).success
        /\ LET node == nodes[tasks[1]["node_id"]]
           IN "narrative" \in DOMAIN node =>
                 \A k \in 1..Len(node["narrative"].vals) :
                     PrimitiveValueValidator("MARKDOWN_TEXT", node["narrative"].vals[k])
                         <=> IsString(node["narrative"].vals[k])

\* the follow-up actions hold a PATCH_NODE
PatchesNode == \E k \in 1..Len(outcome.actions) : outcome.actions[k]["type"] = "PATCH_NODE"

\* the outcome is a success whose only follow-up action is
\* PATCH_NODE(node_id, {type: default})
PatchesDefault ==
    /\ outcome.exc = None /\ outcome.success
    /\ outcome.actions =
          <<patch_node(tasks[1]["node_id"], [type |-> Scalar(tasks[1]["default"])])>>

\* the node has a non-empty type, or the task has no default
TypedOrNoDefault ==
    \/ "default" \notin DOMAIN tasks[1]
    \/ LET node == nodes[tasks[1]["node_id"]]
       IN "type" \in DOMAIN node /\ Truthy(node["type"])

EmailAmongTypes(node) ==
    /\ "type" \in DOMAIN node
    /\ \E k \in 1..Len(node["type"].vals) : node["type"].vals[k] = "email"

\* C16: for an IdentityObject node with a string identity,
\* identity_object_property_dependencies fails if and only if (hashed and
\* the identity is not in hash form) or (the identity is in hash form and
\* hashed is false) or (hashed is false, 'email' is among the node's types
\* and the identity is not of the form x@y); otherwise it succeeds.
C16_IdentityRules ==
    ( /\ RanTask(IDENTITY_OBJECT_PROPERTY_DEPENDENCIES) /\ TaskNodePresent
      /\ "identity" \in DOMAIN nodes[tasks[1]["node_id"]]
      /\ IsString(nodes[tasks[1]["node_id"]]["identity"].vals[1]) ) =>
        LET node == nodes[tasks[1]["node_id"]]
            identity == node["identity"].vals[1]
            hashed == "hashed" \in DOMAIN node /\ node["hashed"] = Scalar(PyTrue)
            is_hashed == identity \in HashedIdentityStrings
            is_email == identity \in EmailStrings
            fails == \/ hashed /\ ~is_hashed
                     \/ is_hashed /\ ~hashed
                     \/ ~hashed /\ EmailAmongTypes(node) /\ ~is_email
        IN /\ outcome.exc = None
           /\ outcome.success <=> ~fails

\* C17: with times as bounded integers, assertion_timestamp_checks on an
\* assertion with a parseable issuedOn succeeds if and only if
\* issuedOn <= now and (expires is absent, or expires >= issuedOn and
\* expires >= now); issuedOn > now fails with the 'in the future' message
\* whatever expires is, and expires < issuedOn is reported as 'prior to issue
\* date' in preference to 'expired'; an unparseable issuedOn gives a
\* prerequisite error.
C17_TimestampRules ==
    \A k \in 1..Len(runs) :
        LET a == nodes[AssertionId]
            n == runs[k].clock
            r == runs[k].outcome
            issuedOn == a["issuedOn"].vals[1]
            i == DatetimeTable[issuedOn].t
            has_expires == "expires" \in DOMAIN a
            expires == a["expires"].vals[1]
            e == DatetimeTable[expires].t
        IN IF ~Parses(issuedOn)
           THEN r.exc = "TaskPrerequisitesError"
           ELSE /\ (r.exc = None /\ r.success) <=>
                      (i <= n /\ (~has_expires \/ (Parses(expires) /\ e >= i /\ e >= n)))
                /\ i > n => (r.exc = None /\ r.message = "issue date in the future")
                /\ (i <= n /\ has_expires /\ Parses(expires) /\ e < i) =>
                      (r.exc = None /\ r.message = "expiration is prior to issue date")

\* C18: assertion_verification_dependencies raises a prerequisite error
\* when the assertion, its verification property or the verification target
\* node is missing; otherwise it succeeds and returns
\* ADD_TASK(HOSTED_ID_IN_VERIFICATION_SCOPE, node_id = the assertion's id) if
\* and only if the verification node's type is 'HostedBadge'.
C18_VerificationDependencies ==
    RanTask(ASSERTION_VERIFICATION_DEPENDENCIES) =>
        LET assertion_id == tasks[1]["node_id"]
            assertion == nodes[assertion_id]
            target == assertion["verification"].vals[1]
        IN IF \/ ~HasNode(nodes, assertion_id)
              \/ "verification" \notin DOMAIN assertion
              \/ ~HasNode(nodes, target)
           THEN outcome.exc = "TaskPrerequisitesError"
           ELSE /\ outcome.exc = None /\ outcome.success
                /\ outcome.actions =
                     IF "type" \in DOMAIN nodes[target]
                        /\ nodes[target]["type"] = Scalar("HostedBadge")
                     THEN <<add_task(HOSTED_ID_IN_VERIFICATION_SCOPE,
                                     [node_id |-> assertion_id])>>
                     ELSE << >>

\* a verification node of type HostedBadge, other than the assertion: the
\* scope check is queued for the assertion
C18_Witness ==
    /\ RanTask(ASSERTION_VERIFICATION_DEPENDENCIES) /\ TaskNodePresent
    /\ "verification" \in DOMAIN nodes[NodeId]
    /\ nodes[NodeId]["verification"] = Scalar(TargetId)
    /\ HasNode(nodes, TargetId) /\ "type" \in DOMAIN nodes[TargetId]
    /\ nodes[TargetId]["type"] = Scalar("HostedBadge")
    /\ outcome.actions = <<add_task(HOSTED_ID_IN_VERIFICATION_SCOPE, [node_id |-> NodeId])>>

\* C20: for a node present in the store, validate_property decides
\* presence and arity before any value check: a property that is absent, or
\* an empty or all-null list, fails when required and succeeds with no
\* follow-up action when not required; otherwise more than one value without
\* many fails; only otherwise are the values type-checked.
C20_PresenceAndArityFirst ==
    (RanTask(VALIDATE_PROPERTY) /\ TaskNodePresent) =>
        LET tm == tasks[1]
            node == nodes[tm["node_id"]]
            vals == node[tm["prop_name"]].vals
            unusable == \/ tm["prop_name"] \notin DOMAIN node
                        \/ \A k \in 1..Len(vals) : vals[k] = None
        IN /\ outcome.exc = None
           /\ IF unusable
              THEN IF tm["required"]
                   THEN ~outcome.success
                   ELSE outcome.success /\ outcome.actions = << >>
              ELSE IF ~GetBool(tm, "many") /\ Len(vals) > 1
              THEN /\ ~outcome.success
                   /\ outcome.message = "more than the single allowed value"
              ELSE IF tm["prop_type"] = "ID"
              THEN outcome = IdLoop(nodes, tm, vals, 1, << >>)
              ELSE outcome.success <=>
                      \A k \in 1..Len(vals) : PrimitiveValueValidator(tm["prop_type"], vals[k])

\* two values of which the first is no string, in a property without many:
\* rejected for their number
C20_Witness ==
    /\ RanTask(VALIDATE_PROPERTY) /\ TaskNodePresent
    /\ "narrative" \in DOMAIN nodes[NodeId]
    /\ nodes[NodeId]["narrative"] = List(<<PyNumber, "b">>)
    /\ tasks[1]["prop_type"] = "TEXT" /\ ~GetBool(tasks[1], "many")
    /\ outcome.message = "more than the single allowed value"

\* the queue holds a failed task for property p of the node
FailedFor(p) ==
    \E k \in 1..Len(tasks) :
        /\ Get(tasks[k], "node_id") = NodeId /\ Get(tasks[k], "prop_name") = p
        /\ tasks[k]["complete"] /\ Get(tasks[k], "success") = PyFalse

\* C11: for every class of the validator registry and every property its
\* table marks required, validating a node of that class that lacks the
\* property (validate_expected_node_class and every task it queues) leaves
\* a failed task for that property, so the verdict is not valid; this
\* covers the required properties typed DATA_URI_OR_URL.
C11_RequiredPropertyFails ==
    (pc \in {"done", "halted"}) =>
        \A p \in RequiredProps(tasks[1]["expected_class"]) :
            p \notin DOMAIN nodes[NodeId] => FailedFor(p)

(***************************************************************************)
(* Properties of validate_property on an ID-typed property                 *)
(***************************************************************************)
\* the last step ran validate_property on the ID-typed property of a node
\* of the store
RanIdTask == pc = "ids" /\ Len(tasks) = 1 /\ TaskNodePresent

\* the values of the property under test, none when the node lacks it
IdVals ==
    LET node == nodes[tasks[1]["node_id"]]
    IN IF "evidence" \in DOMAIN node THEN node["evidence"].vals ELSE << >>

\* the property is there, holds a value that is not null, and holds one
\* value unless many is set: its values are type-checked
ReachesTypeCheck ==
    /\ "evidence" \in DOMAIN nodes[tasks[1]["node_id"]]
    /\ \E k \in 1..Len(IdVals) : IdVals[k] # None
    /\ GetBool(tasks[1], "many") \/ Len(IdVals) = 1

\* a value accepted without fetch
AcceptedReference(val) ==
    /\ is_iri(val)
    /\ \/ HasNode(nodes, val)
       \/ GetBool(tasks[1], "allow_remote_url") /\ is_url(val)

\* one ADD_TASK(VALIDATE_EXPECTED_NODE_CLASS) per value naming a local node
ExpectedClassActions ==
    LET InStore(val) == HasNode(nodes, val)
        local == SelectSeq(IdVals, InStore)
    IN [k \in 1..Len(local) |->
            add_task(VALIDATE_EXPECTED_NODE_CLASS,
                     [node_id |-> local[k], expected_class |-> tasks[1]["expected_class"]])]

IdWithoutFetchRule ==
    /\ outcome.exc = None
    /\ outcome.success <=> \A k \in 1..Len(IdVals) : AcceptedReference(IdVals[k])
    /\ outcome.success => outcome.actions = ExpectedClassActions

\* C21 as stated: for an ID-typed property without fetch, validate_property
\* succeeds if and only if every value is a valid IRI that names a local
\* node or, with allow_remote_url, is a valid URL; on success it returns
\* one ADD_TASK(VALIDATE_EXPECTED_NODE_CLASS) per local value, in order.
C21_Original ==
    (RanIdTask /\ ~GetBool(tasks[1], "fetch")) => IdWithoutFetchRule

\* C21: the same, for a property whose values reach the type check (the
\* property is present, is not an empty or all-null list, and holds one
\* value unless many is set).
C21_IdWithoutFetch ==
    (RanIdTask /\ ~GetBool(tasks[1], "fetch") /\ ReachesTypeCheck) => IdWithoutFetchRule

\* a remote URL and a local node under allow_remote_url: one follow-up
\* task, for the local node
C21_Witness ==
    /\ RanIdTask /\ ~GetBool(tasks[1], "fetch") /\ ReachesTypeCheck
    /\ GetBool(tasks[1], "allow_remote_url")
    /\ IdVals = <<RemoteUrl, TargetId>>
    /\ outcome.success
    /\ outcome.actions = <<add_task(VALIDATE_EXPECTED_NODE_CLASS,
                                    [node_id |-> TargetId, expected_class |-> "Evidence"])>>

\* one ADD_TASK(FETCH_HTTP_NODE) per value that is a valid IRI
FetchActions ==
    LET valid == SelectSeq(IdVals, is_iri)
    IN [k \in 1..Len(valid) |->
            add_task(FETCH_HTTP_NODE,
                     [url |-> valid[k], expected_class |-> tasks[1]["expected_class"]])]

\* C22 as stated: for an ID-typed property with fetch set,
\* validate_property returns one ADD_TASK(FETCH_HTTP_NODE, url = value,
\* expected_class) per value that is a valid IRI and no
\* VALIDATE_EXPECTED_NODE_CLASS, whatever the local store holds.
C22_Original ==
    (RanIdTask /\ GetBool(tasks[1], "fetch")) => outcome.actions = FetchActions

\* C22: for an ID-typed property with fetch set whose values reach the
\* type check, validate_property succeeds if and only if every value is a
\* valid IRI; on success it returns one ADD_TASK(FETCH_HTTP_NODE) per
\* value, in value order and whatever the local store holds, and on
\* failure no action.
C22_IdWithFetch ==
    (RanIdTask /\ GetBool(tasks[1], "fetch") /\ ReachesTypeCheck) =>
        /\ outcome.exc = None
        /\ outcome.success <=> \A k \in 1..Len(IdVals) : is_iri(IdVals[k])
        /\ outcome.actions = IF outcome.success THEN FetchActions ELSE << >>

\* the id of a local node and a remote URL, both fetched
C22_Witness ==
    /\ RanIdTask /\ GetBool(tasks[1], "fetch") /\ ReachesTypeCheck
    /\ IdVals = <<TargetId, RemoteUrl>>
    /\ HasNode(nodes, TargetId)
    /\ outcome.success
    /\ outcome.actions =
          <<add_task(FETCH_HTTP_NODE, [url |-> TargetId, expected_class |-> "Evidence"]),
            add_task(FETCH_HTTP_NODE, [url |-> RemoteUrl, expected_class |-> "Evidence"])>>

\* C23: validate_rdf_type_property returns validate_property's failure
\* unchanged when that check fails; when it passes and the node has a
\* non-empty type, the task succeeds if and only if must_contain_one is
\* unset or one of the node's types (a scalar counting as a one-element
\* list) is in must_contain_one.
C23_MustContainOne ==
    RanTask(VALIDATE_RDF_TYPE_PROPERTY) =>
        LET tm == tasks[1]
            prop_result == validate_property(nodes, tm)
            node == nodes[tm["node_id"]]
            types == node["type"].vals
        IN IF prop_result.exc # None \/ ~prop_result.success
           THEN outcome = prop_result
           ELSE ("type" \in DOMAIN node /\ Truthy(node["type"])) =>
                   /\ outcome.exc = None
                   /\ outcome.success <=>
                         \/ "must_contain_one" \notin DOMAIN tm
                         \/ \E i \in 1..Len(types) :
                                \E j \in 1..Len(tm["must_contain_one"]) :
                                    types[i] = tm["must_contain_one"][j]

\* a node typed HostedBadge where the type must be Criteria: the property
\* check passes and the task fails
C23_Witness ==
    /\ RanTask(VALIDATE_RDF_TYPE_PROPERTY) /\ TaskNodePresent
    /\ "type" \in DOMAIN nodes[NodeId]
    /\ nodes[NodeId]["type"] = Scalar("HostedBadge")
    /\ "must_contain_one" \in DOMAIN tasks[1]
    /\ tasks[1]["must_contain_one"] = <<"Criteria">>
    /\ validate_property(nodes, tasks[1]).success
    /\ ~outcome.success
    /\ outcome.message = "does not have type among allowed values"

\* the kind of task a validator spec stands for, None when it stands for
\* none
TaskKind(validator) ==
    IF Get(validator, "prop_type") = "RDF_TYPE" THEN VALIDATE_RDF_TYPE_PROPERTY
    ELSE IF Get(validator, "prop_type") \in PRIMITIVES THEN VALIDATE_PROPERTY
    ELSE IF "task_type" \in DOMAIN validator THEN validator["task_type"]
    ELSE None

HasTaskKind(validator) == TaskKind(validator) # None

\* C24: for every class with a validator table,
\* get_validation_actions(node_id, class) returns ADD_TASK actions in table
\* order, at most one per validator spec: VALIDATE_RDF_TYPE_PROPERTY for
\* an RDF_TYPE spec, VALIDATE_PROPERTY for a spec typed in PRIMITIVES (ID
\* among them), a task of kind task_type for a task spec; each action
\* carries the spec's parameters plus node_id and node_class.
C24_ActionsFollowTable ==
    (/\ RanTask(VALIDATE_EXPECTED_NODE_CLASS) /\ TaskNodePresent
     /\ Get(tasks[1], "expected_class") \in ImplementedClasses) =>
        LET class_name == tasks[1]["expected_class"]
            emitting == SelectSeq(ClassValidators(class_name), HasTaskKind)
            actions == outcome.actions
        IN /\ outcome.success
           /\ "ID" \in PRIMITIVES
           /\ Len(actions) = Len(emitting)
           /\ \A k \in 1..Len(actions) :
                 /\ DOMAIN actions[k] =
                       DOMAIN emitting[k] \cup {"type", "name", "node_id", "node_class"}
                 /\ actions[k]["type"] = ADD_TASK
                 /\ actions[k]["name"] = TaskKind(emitting[k])
                 /\ actions[k]["node_id"] = tasks[1]["node_id"]
                 /\ actions[k]["node_class"] = class_name
                 /\ \A key \in DOMAIN emitting[k] : actions[k][key] = emitting[k][key]

\* the Assertion table: twelve specs, twelve actions, of the three kinds
C24_Witness ==
    /\ RanTask(VALIDATE_EXPECTED_NODE_CLASS) /\ TaskNodePresent
    /\ Get(tasks[1], "expected_class") = "Assertion"
    /\ Len(outcome.actions) = 12
    /\ outcome.actions[1]["name"] = VALIDATE_PROPERTY
    /\ outcome.actions[2]["name"] = VALIDATE_RDF_TYPE_PROPERTY
    /\ outcome.actions[3]["prop_type"] = "ID"
    /\ outcome.actions[12]["name"] = ASSERTION_TIMESTAMP_CHECKS

\* the node holds a narrative that is not null, the empty string or the
\* empty list
HasNarrative(node) ==
    /\ "narrative" \in DOMAIN node
    /\ node["narrative"] \notin {Scalar(None), Scalar(""), List(<< >>)}

\* C25: criteria_property_dependencies fails if and only if the Criteria
\* node's id is a blank-node id and the node has no non-empty narrative; a
\* Criteria node with an external id succeeds with or without a narrative.
C25_BlankCriteriaNeedsNarrative ==
    (RanTask(CRITERIA_PROPERTY_DEPENDENCIES) /\ TaskNodePresent) =>
        LET node_id == tasks[1]["node_id"]
        IN /\ outcome.exc = None
           /\ ~outcome.success <=>
                 (node_id \in BlankNodeStrings /\ ~HasNarrative(nodes[node_id]))
           /\ node_id \notin BlankNodeStrings => outcome.success

\* a Criteria node with a blank-node id and an empty narrative
C25_Witness ==
    /\ RanTask(CRITERIA_PROPERTY_DEPENDENCIES) /\ TaskNodePresent
    /\ tasks[1]["node_id"] = TargetId
    /\ "narrative" \in DOMAIN nodes[TargetId]
    /\ nodes[TargetId]["narrative"] = Scalar("")
    /\ ~outcome.success
    /\ outcome.message = "Either external id or narrative is required."

\* the follow-up actions of all the values: one FETCH_HTTP_NODE per value
\* with fetch, one VALIDATE_EXPECTED_NODE_CLASS per value that names a
\* local node without
AllFollowUps ==
    IF GetBool(tasks[1], "fetch")
    THEN [k \in 1..Len(IdVals) |->
            add_task(FETCH_HTTP_NODE,
                     [url |-> IdVals[k], expected_class |-> tasks[1]["expected_class"]])]
    ELSE ExpectedClassActions

\* C27: a failed validate_property returns no follow-up action: when a
\* value of a many-valued ID property is rejected, the
\* VALIDATE_EXPECTED_NODE_CLASS or FETCH_HTTP_NODE actions collected for
\* the values before it are discarded, so that the follow-up actions are
\* those of all the values or none.
C27_FailureDropsActions ==
    RanIdTask =>
        /\ ~outcome.success => outcome.actions = << >>
        /\ outcome.actions \in {<< >>, AllFollowUps}

\* a local node followed by a string that is no IRI: failure, and nothing
\* kept for the first value
C27_Witness ==
    /\ RanIdTask /\ GetBool(tasks[1], "many")
    /\ IdVals = <<TargetId, "text">>
    /\ HasNode(nodes, TargetId)
    /\ ~outcome.success
    /\ outcome.message = "not in IRI format"
    /\ outcome.actions = << >>

(***************************************************************************)
(* Properties of validate_extension_node                                   *)
(***************************************************************************)
\* the task the last step ran: the lowest-id active task of the queue the
\* step started from
LastRun == NextTask(prev)

\* the extension types the last run had to test
TypesToTest ==
    LET declared == list_of(ExtensionNode(nodes, LastRun)["type"])
    IN IF "type_to_test" \in DOMAIN LastRun
       THEN {LastRun["type_to_test"]}
       ELSE {declared[i] : i \in 1..Len(declared)} \cap KnownExtensions

\* C26: validate_extension_node dispatches on the number of extension
\* types to test (the single type_to_test when the task carries one, else
\* the node's types that are in the registry): none gives failure with no
\* action; k > 1 gives success with exactly k
\* ADD_TASK(VALIDATE_EXTENSION_NODE) actions, one per type, each carrying
\* type_to_test, so that each child task tests one extension and queues no
\* further task; exactly one runs the schema check and returns no action.
C26_ExtensionDispatch ==
    (/\ pc \in {"extensions", "done", "halted"} /\ nsteps > 0
     /\ HasExtensionNode(nodes, LastRun)) =>
        LET k == Cardinality(TypesToTest)
            actions == outcome.actions
        IN /\ k = 0 =>
                 /\ outcome.exc = None /\ ~outcome.success /\ actions = << >>
                 /\ Len(tasks) = Len(prev)
           /\ k > 1 =>
                 /\ outcome.exc = None /\ outcome.success /\ Len(actions) = k
                 /\ \A i \in 1..k :
                       /\ actions[i]["type"] = ADD_TASK
                       /\ actions[i]["name"] = VALIDATE_EXTENSION_NODE
                       /\ "type_to_test" \in DOMAIN actions[i]
                 /\ {actions[i]["type_to_test"] : i \in 1..k} = TypesToTest
                 /\ Len(tasks) = Len(prev) + k
                 /\ \A i \in 1..k :
                       /\ tasks[Len(prev) + i]["name"] = VALIDATE_EXTENSION_NODE
                       /\ tasks[Len(prev) + i]["type_to_test"] = actions[i]["type_to_test"]
           /\ k = 1 =>
                 /\ actions = << >>
                 /\ Len(tasks) = Len(prev)
                 /\ TypesToTest \subseteq KnownExtensions => outcome.exc = None
           /\ LastRun["task_id"] > 1 =>
                 /\ "type_to_test" \in DOMAIN LastRun
                 /\ k = 1

\* a node of all three registered extension types: three child tasks, one
\* per type, each run without queueing another
C26_Witness ==
    /\ pc = "done" /\ nsteps = 4 /\ Len(tasks) = 4
    /\ "type_to_test" \notin DOMAIN tasks[1]
    /\ {tasks[i]["type_to_test"] : i \in 2..4} = KnownExtensions
    /\ \A i \in 1..4 : tasks[i]["complete"]
    /\ outcome.actions = << >>

====
